---- MODULE Spec2Model ----
(***************************************************************************)
(* A model of the matching, offer and deal engine of broker_bot.py.        *)
(*                                                                         *)
(* The SQLite tables are sequences of records: a row's id is its index,    *)
(* since every table is AUTOINCREMENT and no row is ever deleted.          *)
(*                                                                         *)
(* Encodings                                                               *)
(*   - SQL NULL / Python None in an integer id column is 0: ids and        *)
(*     channel ids start at 1 and the code tests these columns by          *)
(*     truthiness (`if user_id:`, `if direct_tg_id:`).                     *)
(*   - NULL / None in a text column is "" (tested by truthiness too).      *)
(*   - NULL in lat / lon is NoCoord (the code tests `is None`).            *)
(*   - texts the code splits or trims are sequences of one-character       *)
(*     strings; other texts are TLA+ strings.                              *)
(*   - coordinates are in 1/100 degree, distances and radii in metres.     *)
(***************************************************************************)
EXTENDS Integers, Sequences, FiniteSets, TLC

VARIABLES
    users,              \* table users:     [tg_id, username, role]
    executors,          \* table executors
    requests,           \* table requests
    offers,             \* table offers
    deals,              \* table deals
    prefer_owner_first, \* table settings, row id=1
    accepts,            \* the on_accept_offer calls in progress
    calls,              \* the get_or_create_user calls in progress
    sessions,           \* per actor: the conversations' states and user_data
    ret,                \* what the most recent operation returned
    out                 \* the messages the most recent operation sent

tables == <<users, executors, requests, offers, deals, prefer_owner_first>>
vars == <<users, executors, requests, offers, deals, prefer_owner_first, accepts, calls, sessions,
          ret, out>>

(***************************************************************************)
(* Bounds of the model                                                     *)
(***************************************************************************)
MaxExecutors == 2
MaxRequests == 2
MaxOffers == 2
MaxDeals == 2
MaxAccepts == 1
MaxOrderExecutors == 3
MaxDispatchExecutors == 3
MaxDispatchRequests == 1
MaxCatalogExecutors == 22
MaxCatalogRequests == 2
MaxFragments == 3
MaxConvRequests == 1
MaxConvOffers == 1
MaxAdminExecutors == 1
MaxAdminRequests == 1
MaxSendUserId == 3
MaxAcceptSlots == 2
MaxAcceptOffers == 2
MaxAcceptDeals == 3
MaxDistinctOffers == 3
MaxOfferConvOffers == 2
MaxCalls == 2
MaxUsersExecutors == 2

NULL == 0
NoCoord == 99999
NoText == ""

(***************************************************************************)
(* Small sequence helpers                                                  *)
(***************************************************************************)
Range(s) == {s[i] : i \in DOMAIN s}

Front(s) == SubSeq(s, 1, Len(s) - 1)

Last(s) == s[Len(s)]

\* [f(x) for x in s if P(x)] needs SelectSeq with a computed test
RECURSIVE SeqOfSet(_)
SeqOfSet(S) ==
    IF S = {} THEN <<>>
    ELSE LET m == CHOOSE x \in S : \A y \in S : x <= y
         IN  <<m>> \o SeqOfSet(S \ {m})

(***************************************************************************)
(* Python str.split(","), str.strip() and ",".join()                       *)
(***************************************************************************)
IsSpace(c) == c = " "

RECURSIVE LStrip(_)
LStrip(s) == IF s # <<>> /\ IsSpace(Head(s)) THEN LStrip(Tail(s)) ELSE s

RECURSIVE RStrip(_)
RStrip(s) == IF s # <<>> /\ IsSpace(Last(s)) THEN RStrip(Front(s)) ELSE s

Strip(s) == RStrip(LStrip(s))

RECURSIVE SplitComma(_)
SplitComma(s) ==
    IF \A i \in DOMAIN s : s[i] # ","
    THEN <<s>>
    ELSE LET i == CHOOSE k \in DOMAIN s :
                      s[k] = "," /\ \A j \in 1..(k - 1) : s[j] # ","
         IN  <<SubSeq(s, 1, i - 1)>> \o SplitComma(SubSeq(s, i + 1, Len(s)))

RECURSIVE JoinComma(_)
JoinComma(l) ==
    IF l = <<>> THEN <<>>
    ELSE IF Len(l) = 1 THEN l[1]
    ELSE l[1] \o <<",">> \o JoinComma(Tail(l))

(***************************************************************************)
(* Actors of the chat transport: the incoming actor is a channel id with   *)
(* an optional handle.  ADMIN_IDS comes from the environment.              *)
(***************************************************************************)
ADMIN_IDS == {1}

\* (mutant) every actor passes
is_admin_any(user_id) == TRUE

is_admin(user_id) == user_id \in ADMIN_IDS

Actors ==
    { [id |-> 1, username |-> "root"],
      [id |-> 2, username |-> "alice"],
      [id |-> 3, username |-> NoText],
      [id |-> 4, username |-> "dave"] }

ActorIds == {a.id : a \in Actors}

CATEGORY_CHOICES == << <<"a">>, <<"b">> >>

(***************************************************************************)
(* haversine_km on the grid of points the model uses, in metres: the       *)
(* values are 2*R*asin(sqrt(a)) with R = 6371.0 for these coordinates.     *)
(***************************************************************************)
P0 == <<5500, 3700>>
P1 == <<5501, 3700>>
P2 == <<5500, 3703>>
P3 == <<5600, 3700>>

Points == {P0, P1, P2, P3}

haversine_km(lat1, lon1, lat2, lon2) ==
    LET p == <<lat1, lon1>>
        q == <<lat2, lon2>>
    IN  CASE p = q -> 0
          [] {p, q} = {P0, P1} -> 1112
          [] {p, q} = {P0, P2} -> 1913
          [] {p, q} = {P0, P3} -> 111195
          [] {p, q} = {P1, P2} -> 2213
          [] {p, q} = {P1, P3} -> 110083
          [] {p, q} = {P2, P3} -> 111211

(***************************************************************************)
(* DB layer: users                                                         *)
(***************************************************************************)
\* SELECT id FROM users WHERE tg_id=?  (fetchone: the first such row)
user_id_by_tg(us, tg_id) ==
    IF \E i \in DOMAIN us : us[i].tg_id = tg_id
    THEN CHOOSE i \in DOMAIN us :
             us[i].tg_id = tg_id /\ \A j \in 1..(i - 1) : us[j].tg_id # tg_id
    ELSE NULL

\* (mutant) the first UPDATE without pending_username=NULL
backfill_pending_keep(ex, uid, tg) ==
    IF tg.username # NoText
    THEN [i \in DOMAIN ex |->
             IF ex[i].pending_username = tg.username
             THEN [ex[i] EXCEPT !.user_id = uid]
             ELSE ex[i]]
    ELSE ex

\* The two UPDATE executors statements that follow the INSERT of a new user
backfill_pending(ex, uid, tg) ==
    IF tg.username # NoText
    THEN [i \in DOMAIN ex |->
             IF ex[i].pending_username = tg.username
             THEN [ex[i] EXCEPT !.user_id = uid, !.pending_username = NoText]
             ELSE ex[i]]
    ELSE ex

backfill_direct(ex, uid, tg) ==
    [i \in DOMAIN ex |->
        IF ex[i].direct_tg_id = tg.id
        THEN [ex[i] EXCEPT !.user_id = uid]
        ELSE ex[i]]

\* (mutant) without `and not is_admin(tg.id)`
role_update_any(old_role, role, tg_id) ==
    IF role # NoText /\ old_role # role THEN role ELSE old_role

\* The role stored for an existing user on a later call
role_update(old_role, role, tg_id) ==
    IF role # NoText /\ old_role # role /\ ~is_admin(tg_id) THEN role ELSE old_role

\* The role stored for a new user
role_insert(role, tg_id) == IF is_admin(tg_id) THEN "admin" ELSE role

\* (mutant) the two backfill UPDATEs also run when the user row exists
get_or_create_user_rebinding(us, ex, tg, role) ==
    LET uid == user_id_by_tg(us, tg.id)
    IN  IF uid # NULL
        THEN [users |-> [us EXCEPT ![uid].role = role_update(us[uid].role, role, tg.id)],
              executors |-> backfill_direct(backfill_pending(ex, uid, tg), uid, tg),
              uid |-> uid]
        ELSE LET new == Len(us) + 1
             IN  [users |-> Append(us, [tg_id |-> tg.id,
                                        username |-> tg.username,
                                        role |-> role_insert(role, tg.id)]),
                  executors |-> backfill_direct(backfill_pending(ex, new, tg), new, tg),
                  uid |-> new]

\* get_or_create_user(tg, role): the tables after it and the id it returns
get_or_create_user(us, ex, tg, role) ==
    LET uid == user_id_by_tg(us, tg.id)
    IN  IF uid # NULL
        THEN [users |-> [us EXCEPT ![uid].role = role_update(us[uid].role, role, tg.id)],
              executors |-> ex,
              uid |-> uid]
        ELSE LET new == Len(us) + 1
             IN  [users |-> Append(us, [tg_id |-> tg.id,
                                        username |-> tg.username,
                                        role |-> role_insert(role, tg.id)]),
                  executors |-> backfill_direct(backfill_pending(ex, new, tg), new, tg),
                  uid |-> new]

tg_id_by_user_id(us, user_id) ==
    IF user_id \in DOMAIN us THEN us[user_id].tg_id ELSE NULL

username_by_user_id(us, user_id) ==
    IF user_id = NULL THEN NoText
    ELSE IF user_id \in DOMAIN us THEN us[user_id].username ELSE NoText

(***************************************************************************)
(* get_or_create_user statement by statement: a call commits after each    *)
(* statement, and another call may run between two of them                 *)
(***************************************************************************)
NoCall == [pc |-> "idle", tg |-> [id |-> NULL, username |-> NoText], role |-> NoText]

\* (mutant) the INSERT without the UNIQUE constraint on users.tg_id
insert_user_no_unique(us, tg, role) ==
    [raised |-> FALSE,
     users |-> Append(us, [tg_id |-> tg.id, username |-> tg.username,
                           role |-> role_insert(role, tg.id)])]

\* INSERT INTO users: tg_id is UNIQUE, a second row for it is refused
insert_user(us, tg, role) ==
    IF \E u \in DOMAIN us : us[u].tg_id = tg.id
    THEN [raised |-> TRUE, users |-> us]
    ELSE [raised |-> FALSE,
          users |-> Append(us, [tg_id |-> tg.id, username |-> tg.username,
                                role |-> role_insert(role, tg.id)])]

\* SELECT id, role ...; with a row, the role UPDATE and the return
goc_select(c, tg, role) ==
    LET uid == user_id_by_tg(users, tg.id)
    IN  /\ calls[c].pc = "idle"
        /\ IF uid # NULL
           THEN /\ users' = [users EXCEPT ![uid].role = role_update(users[uid].role, role, tg.id)]
                /\ ret' = [op |-> "get_or_create_user", tg_id |-> tg.id, raised |-> FALSE,
                           uid |-> uid]
                /\ UNCHANGED calls
           ELSE /\ calls' = [calls EXCEPT ![c] = [pc |-> "insert", tg |-> tg, role |-> role]]
                /\ ret' = [op |-> "none"]
                /\ UNCHANGED users
        /\ out' = <<>>
        /\ UNCHANGED <<executors, requests, offers, deals, prefer_owner_first, accepts, sessions>>

\* INSERT INTO users ...; an IntegrityError ends the call
goc_insert(c) ==
    LET ins == insert_user(users, calls[c].tg, calls[c].role)
    IN  /\ calls[c].pc = "insert"
        /\ users' = ins.users
        /\ IF ins.raised
           THEN /\ calls' = [calls EXCEPT ![c] = NoCall]
                /\ ret' = [op |-> "get_or_create_user", tg_id |-> calls[c].tg.id,
                           raised |-> TRUE, uid |-> NULL]
           ELSE /\ calls' = [calls EXCEPT ![c].pc = "backfill_pending"]
                /\ ret' = [op |-> "none"]
        /\ out' = <<>>
        /\ UNCHANGED <<executors, requests, offers, deals, prefer_owner_first, accepts, sessions>>

\* UPDATE executors ... WHERE pending_username=?
goc_backfill_pending(c) ==
    /\ calls[c].pc = "backfill_pending"
    /\ executors' = backfill_pending(executors, user_id_by_tg(users, calls[c].tg.id),
                                     calls[c].tg)
    /\ calls' = [calls EXCEPT ![c].pc = "backfill_direct"]
    /\ ret' = [op |-> "none"]
    /\ out' = <<>>
    /\ UNCHANGED <<users, requests, offers, deals, prefer_owner_first, accepts, sessions>>

\* UPDATE executors ... WHERE direct_tg_id=?
goc_backfill_direct(c) ==
    /\ calls[c].pc = "backfill_direct"
    /\ executors' = backfill_direct(executors, user_id_by_tg(users, calls[c].tg.id),
                                    calls[c].tg)
    /\ calls' = [calls EXCEPT ![c].pc = "return"]
    /\ ret' = [op |-> "none"]
    /\ out' = <<>>
    /\ UNCHANGED <<users, requests, offers, deals, prefer_owner_first, accepts, sessions>>

\* SELECT id FROM users WHERE tg_id=? and the return
goc_return(c) ==
    /\ calls[c].pc = "return"
    /\ calls' = [calls EXCEPT ![c] = NoCall]
    /\ ret' = [op |-> "get_or_create_user", tg_id |-> calls[c].tg.id, raised |-> FALSE,
               uid |-> user_id_by_tg(users, calls[c].tg.id)]
    /\ out' = <<>>
    /\ UNCHANGED <<tables, accepts, sessions>>

(***************************************************************************)
(* DB layer: executors, requests, settings                                 *)
(***************************************************************************)
\* (mutant) the INSERT with coordinates instead of NULL, NULL
admin_add_executor_located(ex, pending_username, city, radius_km, categories, is_owner, direct_tg_id) ==
    Append(ex, [user_id |-> NULL,
                pending_username |-> pending_username,
                direct_tg_id |-> direct_tg_id,
                categories |-> JoinComma(categories),
                city |-> city,
                lat |-> P1[1],
                lon |-> P1[2],
                radius_km |-> radius_km,
                is_owner |-> is_owner,
                is_active |-> TRUE])

admin_add_executor(ex, pending_username, city, radius_km, categories, is_owner, direct_tg_id) ==
    Append(ex, [user_id |-> NULL,
                pending_username |-> pending_username,
                direct_tg_id |-> direct_tg_id,
                categories |-> JoinComma(categories),
                city |-> city,
                lat |-> NoCoord,
                lon |-> NoCoord,
                radius_km |-> radius_km,
                is_owner |-> is_owner,
                is_active |-> TRUE])

set_executor_location(ex, exec_id, lat, lon) ==
    [i \in DOMAIN ex |->
        IF i = exec_id THEN [ex[i] EXCEPT !.lat = lat, !.lon = lon] ELSE ex[i]]

set_executor_active(ex, exec_id, active) ==
    [i \in DOMAIN ex |->
        IF i = exec_id THEN [ex[i] EXCEPT !.is_active = active] ELSE ex[i]]

new_request(rq, client_user_id, category, description, address_text, city, lat, lon, mode) ==
    Append(rq, [client_user_id |-> client_user_id,
                category |-> category,
                description |-> description,
                address_text |-> address_text,
                city |-> city,
                lat |-> lat,
                lon |-> lon,
                mode |-> mode,
                status |-> "published"])

get_request(rq, request_id) == IF request_id \in DOMAIN rq THEN request_id ELSE NULL

get_executor(ex, exec_id) == IF exec_id \in DOMAIN ex THEN exec_id ELSE NULL

(***************************************************************************)
(* Candidate matcher                                                       *)
(***************************************************************************)
\* [c.strip() for c in cats.split(",")]
category_list(cats) ==
    LET parts == SplitComma(cats)
    IN  [i \in DOMAIN parts |-> Strip(parts[i])]

\* (mutant) `cat in cats`: a substring test on the stored text
category_matches_substring(cat, cats) ==
    /\ cats # <<>>
    /\ \E i \in 1..(Len(cats) - Len(cat) + 1) : SubSeq(cats, i, i + Len(cat) - 1) = cat

\* not (not cats) and cat in [c.strip() for c in cats.split(",")]
category_matches(cat, cats) ==
    /\ cats # <<>>
    /\ cat \in Range(category_list(cats))

\* not (elat is None or elon is None)
has_location(e) == ~(e.lat = NoCoord \/ e.lon = NoCoord)

\* (mutant) dist < eradius
in_radius_strict(dist, eradius) == dist < eradius

\* dist <= eradius
in_radius(dist, eradius) == dist <= eradius

\* (mutant) the SELECT without WHERE is_active=1
all_rows(ex) == SeqOfSet(DOMAIN ex)

\* SELECT ... FROM executors WHERE is_active=1, in rowid order
active_rows(ex) == SeqOfSet({i \in DOMAIN ex : ex[i].is_active})

\* the tuple appended to matches for executor row i
match_row(ex, i, dist) ==
    [exec_id |-> i,
     user_id |-> ex[i].user_id,
     pending_username |-> ex[i].pending_username,
     direct_tg_id |-> ex[i].direct_tg_id,
     dist |-> dist,
     is_owner |-> ex[i].is_owner,
     city |-> ex[i].city]

\* the body of the loop over rows: whether row i is appended to matches
row_matches(r, e) ==
    /\ category_matches(r.category, e.categories)
    /\ has_location(e)
    /\ in_radius(haversine_km(r.lat, r.lon, e.lat, e.lon), e.radius_km)

RECURSIVE collect_matches(_, _, _)
collect_matches(r, ex, rows) ==
    IF rows = <<>> THEN <<>>
    ELSE LET i == Head(rows)
             rest == collect_matches(r, ex, Tail(rows))
         IN  IF row_matches(r, ex[i])
             THEN <<match_row(ex, i, haversine_km(r.lat, r.lon, ex[i].lat, ex[i].lon))>> \o rest
             ELSE rest

\* (mutant) key=lambda x: (0 if x[5] else 1, x[4]): the setting is not consulted
sort_key_owner_always(x, prefer_owner) == <<IF x.is_owner THEN 0 ELSE 1, x.dist>>

\* key=lambda x: (0 if (prefer_owner and x[5]) else 1, x[4])
sort_key(x, prefer_owner) == <<IF prefer_owner /\ x.is_owner THEN 0 ELSE 1, x.dist>>

\* Python's comparison of two such tuples
key_less(a, b) == a[1] < b[1] \/ (a[1] = b[1] /\ a[2] < b[2])

\* list.sort is stable: an element goes after the elements whose key is not greater
RECURSIVE insert_sorted(_, _, _)
insert_sorted(s, x, prefer_owner) ==
    IF s = <<>> THEN <<x>>
    ELSE IF key_less(sort_key(x, prefer_owner), sort_key(Head(s), prefer_owner))
         THEN <<x>> \o s
         ELSE <<Head(s)>> \o insert_sorted(Tail(s), x, prefer_owner)

RECURSIVE sort_matches(_, _)
sort_matches(m, prefer_owner) ==
    IF m = <<>> THEN <<>>
    ELSE insert_sorted(sort_matches(Front(m), prefer_owner), Last(m), prefer_owner)

\* (mutant) the default is returned whatever the row holds
settings_get_default(pof) == TRUE

\* settings_get: the value of the singleton row
settings_get(pof) == pof

\* (mutant) without `if not r: return []`, matching against the newest request
find_candidates_unchecked(rq, ex, pof, req_id) ==
    IF rq = <<>> THEN <<>>
    ELSE sort_matches(collect_matches(rq[IF req_id \in DOMAIN rq THEN req_id ELSE Len(rq)],
                                      ex, active_rows(ex)), settings_get(pof))

find_candidates(rq, ex, pof, req_id) ==
    IF req_id \notin DOMAIN rq THEN <<>>
    ELSE sort_matches(collect_matches(rq[req_id], ex, active_rows(ex)), settings_get(pof))

(***************************************************************************)
(* Contact redaction.  A text is a sequence of characters; a character     *)
(* outside ASCII is written by its class: "uc_w" is a letter (\w), "uc_x"  *)
(* a symbol (neither \w, \d nor \s).                                       *)
(***************************************************************************)
Digits == {"0", "1", "2", "3", "4", "5", "6", "7", "8", "9"}

LowerCase == <<"a", "b", "c", "d", "e", "f", "g", "h", "i", "j", "k", "l", "m",
               "n", "o", "p", "q", "r", "s", "t", "u", "v", "w", "x", "y", "z">>

UpperCase == <<"A", "B", "C", "D", "E", "F", "G", "H", "I", "J", "K", "L", "M",
               "N", "O", "P", "Q", "R", "S", "T", "U", "V", "W", "X", "Y", "Z">>

\* str.lower() of one character, also what re.I compares
Lower(c) ==
    IF c = "uc_W" THEN "uc_w"
    ELSE IF \E i \in DOMAIN UpperCase : UpperCase[i] = c
    THEN LowerCase[CHOOSE i \in DOMAIN UpperCase : UpperCase[i] = c]
    ELSE c

LowerText(s) == [i \in DOMAIN s |-> Lower(s[i])]

\* \d, \w (with _) and \S
IsDigit(c) == c \in Digits

IsWord(c) == IsDigit(c) \/ Lower(c) \in Range(LowerCase) \/ c = "_" \/ Lower(c) = "uc_w"

NonSpace(c) == ~IsSpace(c)

\* [\d\-\s]
PhoneTail(c) == IsDigit(c) \/ c = "-" \/ IsSpace(c)

\* the index after the longest run of characters of a class that starts at i
InClass(class, c) ==
    CASE class = "[\\d\\-\\s]" -> PhoneTail(c)
      [] class = "[\\w_]" -> IsWord(c)
      [] class = "\\S" -> NonSpace(c)

RunEnd(s, i, class) ==
    LET stops == {k \in i..Len(s) : ~InClass(class, s[k])}
    IN  IF stops = {} THEN Len(s) + 1
        ELSE CHOOSE k \in stops : \A j \in stops : k <= j

\* a literal of the pattern at i, letters compared without case (re.I)
StartsWith(s, i, lit) ==
    /\ i + Len(lit) - 1 <= Len(s)
    /\ \A k \in DOMAIN lit : Lower(s[i + k - 1]) = lit[k]

\* Each alternative of PHONE_OR_LINK tried at index i: the index after the
\* match, 0 when it does not match there.
\* \+?\d[\d\-\s]{6,}
match_phone(s, i) ==
    LET d == IF s[i] = "+" THEN i + 1 ELSE i
        e == RunEnd(s, d + 1, "[\\d\\-\\s]")
    IN  IF d <= Len(s) /\ IsDigit(s[d]) /\ e - (d + 1) >= 6 THEN e ELSE 0

\* @[\w_]{3,}
match_handle(s, i) ==
    LET e == RunEnd(s, i + 1, "[\\w_]")
    IN  IF s[i] = "@" /\ e - (i + 1) >= 3 THEN e ELSE 0

\* https?://\S+
match_url(s, i) ==
    LET p == IF StartsWith(s, i, <<"h", "t", "t", "p", "s", ":", "/", "/">>) THEN i + 8
             ELSE IF StartsWith(s, i, <<"h", "t", "t", "p", ":", "/", "/">>) THEN i + 7
             ELSE 0
        e == RunEnd(s, p, "\\S")
    IN  IF p # 0 /\ e > p THEN e ELSE 0

\* t\.me/\S+
match_tme(s, i) ==
    LET p == IF StartsWith(s, i, <<"t", ".", "m", "e", "/">>) THEN i + 5 ELSE 0
        e == RunEnd(s, p, "\\S")
    IN  IF p # 0 /\ e > p THEN e ELSE 0

\* the alternation, in the order of the pattern
PHONE_OR_LINK(s, i) ==
    IF match_phone(s, i) # 0 THEN match_phone(s, i)
    ELSE IF match_handle(s, i) # 0 THEN match_handle(s, i)
    ELSE IF match_url(s, i) # 0 THEN match_url(s, i)
    ELSE match_tme(s, i)

\* (mutant) a marker that shows the length of what it hides as a digit run
MASK_digits == <<"[", "[", "0", "0", "0", "0", "0", "0", "0", "]", "]">>

\* the replacement text of mask_contacts, character by character
MASK ==
    <<"[", "[">>
    \o <<"uc_x", "uc_w", "uc_x", "uc_x", "uc_x", "uc_w", "uc_x", "uc_w", "uc_x", "uc_w",
         "uc_x", "uc_w", " ">>
    \o <<"uc_x", "uc_x", "uc_x", "uc_w", " ">>
    \o <<"uc_x", "uc_w", "uc_x", "uc_w", "uc_x", "uc_x", "uc_x", "uc_w", "uc_x", "uc_x",
         "uc_x", "uc_w", "uc_x", "uc_w", "uc_x", "uc_x", "uc_x", "uc_x", "uc_x", "uc_w",
         "uc_x", "uc_x", "uc_x", "uc_w">>
    \o <<"]", "]">>

\* PHONE_OR_LINK.sub: leftmost matches, left to right, none overlapping
RECURSIVE sub_from(_, _)
sub_from(s, i) ==
    LET starts == {k \in i..Len(s) : PHONE_OR_LINK(s, k) # 0}
    IN  IF starts = {} THEN SubSeq(s, i, Len(s))
        ELSE LET k == CHOOSE k \in starts : \A j \in starts : k <= j
             IN  SubSeq(s, i, k - 1) \o MASK \o sub_from(s, PHONE_OR_LINK(s, k))

mask_contacts(text) == sub_from(text, 1)

(***************************************************************************)
(* Delivery.  `down` is the set of channel ids the transport cannot reach  *)
(* at the time of the call (send_message raises).                          *)
(***************************************************************************)
\* (mutant) the direct channel id is taken whenever the executor has one
resolve_chat_id_direct_first(us, user_id, direct_tg_id) ==
    IF direct_tg_id # NULL THEN direct_tg_id
    ELSE IF user_id # NULL THEN tg_id_by_user_id(us, user_id) ELSE NULL

\* send_to_executor: the channel id it resolves, NULL when there is none
resolve_chat_id(us, user_id, direct_tg_id) ==
    LET chat_id == IF user_id # NULL THEN tg_id_by_user_id(us, user_id) ELSE NULL
    IN  IF chat_id = NULL /\ direct_tg_id # NULL THEN direct_tg_id ELSE chat_id

\* send_to_executor: the attempts it makes (none or one), each with its outcome
send_to_executor(us, user_id, direct_tg_id, msg, down) ==
    LET chat_id == resolve_chat_id(us, user_id, direct_tg_id)
    IN  IF chat_id = NULL THEN <<>>
        ELSE <<[msg EXCEPT !.to = chat_id, !.ok = chat_id \notin down]>>

NoRet == [op |-> "none"]

\* a float: (-1)^neg * mant * 10^exp with mant not a multiple of 10, or nan, or
\* an infinity; "unset" stands for a key that user_data does not hold
NoRate == [kind |-> "unset", neg |-> FALSE, mant |-> 0, exp |-> 0]

\* an on_accept_offer call that is not running
Idle == [pc |-> "idle", tg_id |-> NULL, offer_id |-> NULL, request_id |-> NULL,
         exec_id |-> NULL, exec_user_id |-> NULL, direct_tg_id |-> NULL, deal_id |-> NULL]

(***************************************************************************)
(* Sessions: for each actor the state of start_conv and of req_conv, and   *)
(* context.user_data with the keys of the request conversation (a key that *)
(* is not set holds the empty value of its type).                          *)
(***************************************************************************)
NoData ==
    [req_mode |-> NoText, req_cat |-> <<>>, req_desc |-> <<>>, req_addr |-> <<>>,
     req_addr_resolved |-> <<>>, req_lat |-> NoCoord, req_lon |-> NoCoord,
     geocode_results |-> <<>>, await_loc_for_exec |-> NULL,
     offer_req_id |-> NULL, offer_exec_id |-> NULL, rate_type |-> NoText,
     rate_value |-> NoRate]

NoSession == [start_conv |-> "END", req_conv |-> "END", offer_conv |-> "END",
              user_data |-> NoData]

(***************************************************************************)
(* Handlers                                                                *)
(***************************************************************************)
\* /start: an entry point of start_conv, not taken while start_conv is in ROLE_SEL
start(tg) ==
    LET g == get_or_create_user(users, executors, tg, NoText)
    IN  /\ sessions[tg.id].start_conv = "END"
        /\ users' = g.users
        /\ executors' = g.executors
        /\ sessions' = [sessions EXCEPT ![tg.id].start_conv = "ROLE_SEL"]
        /\ ret' = NoRet
        /\ out' = <<>>
        /\ UNCHANGED <<requests, offers, deals, prefer_owner_first, accepts, calls>>

\* /admin prefer_owner on|off
settings_set_prefer_owner(v) == v

cmd_admin_prefer_owner(tg, v) ==
    /\ prefer_owner_first' = IF is_admin(tg.id) THEN settings_set_prefer_owner(v)
                                               ELSE prefer_owner_first
    /\ ret' = IF is_admin(tg.id) THEN [op |-> "settings_set_prefer_owner", v |-> v] ELSE NoRet
    /\ out' = <<>>
    /\ UNCHANGED <<users, executors, requests, offers, deals, accepts, calls, sessions>>

\* [c.strip() for c in cats.split(",") if c.strip()]
parse_categories(cats) ==
    SelectSeq(category_list(cats), LAMBDA c : c # <<>>)

\* /admin add_executor @username "city" radius "cats" [--owner]
cmd_admin_add_executor(tg, uname, city, radius, cats, owner_flag) ==
    /\ executors' = IF is_admin(tg.id)
                    THEN admin_add_executor(executors, uname, city, radius,
                                            parse_categories(cats), owner_flag, NULL)
                    ELSE executors
    /\ ret' = NoRet
    /\ out' = <<>>
    /\ UNCHANGED <<users, requests, offers, deals, prefer_owner_first, accepts, calls, sessions>>

\* /admin add_exec_id tg_id "city" radius "cats" [--owner]
cmd_admin_add_exec_id(tg, tgid, city, radius, cats, owner_flag) ==
    /\ executors' = IF is_admin(tg.id)
                    THEN admin_add_executor(executors, NoText, city, radius,
                                            parse_categories(cats), owner_flag, tgid)
                    ELSE executors
    /\ ret' = NoRet
    /\ out' = <<>>
    /\ UNCHANGED <<users, requests, offers, deals, prefer_owner_first, accepts, calls, sessions>>

\* the notification of a request sent to one candidate in auction mode, with
\* the "offer" token for (req_id, exec_id)
request_notice(rq, req_id, row) ==
    [to |-> NULL, ok |-> FALSE, kind |-> "new_request",
     req_id |-> req_id, exec_id |-> row.exec_id, dist |-> row.dist,
     category |-> rq[req_id].category, description |-> rq[req_id].description,
     address |-> rq[req_id].address_text]

\* (mutant) the loop without try/except and with a send that raises: the first
\* failed delivery ends the loop
RECURSIVE broadcast_until_failure(_, _, _, _, _)
broadcast_until_failure(us, rq, req_id, candidates, down) ==
    IF candidates = <<>> THEN <<>>
    ELSE LET sent == send_to_executor(us, Head(candidates).user_id,
                                      Head(candidates).direct_tg_id,
                                      request_notice(rq, req_id, Head(candidates)), down)
         IN  IF sent # <<>> /\ ~sent[1].ok
             THEN sent
             ELSE sent \o broadcast_until_failure(us, rq, req_id, Tail(candidates), down)

\* for row in candidates: send_to_executor(...), whatever the outcome of each
RECURSIVE broadcast(_, _, _, _, _)
broadcast(us, rq, req_id, candidates, down) ==
    IF candidates = <<>> THEN <<>>
    ELSE send_to_executor(us, Head(candidates).user_id, Head(candidates).direct_tg_id,
                          request_notice(rq, req_id, Head(candidates)), down)
         \o broadcast(us, rq, req_id, Tail(candidates), down)

DISPLAY_CAP == 20

\* (mutant) the list without the slice
catalog_entries_uncapped(req_id, candidates) ==
    [i \in 1..Len(candidates) |-> [req_id |-> req_id, exec_id |-> candidates[i].exec_id]]

\* candidates[:20] as the "req_offer" tokens (request, executor) of the catalog list
catalog_entries(req_id, candidates) ==
    [i \in 1..(IF Len(candidates) < DISPLAY_CAP THEN Len(candidates) ELSE DISPLAY_CAP) |->
        [req_id |-> req_id, exec_id |-> candidates[i].exec_id]]

\* a reply to the actor who triggered the handler
reply(tg, kind, req_id) == [to |-> tg.id, ok |-> TRUE, kind |-> kind, req_id |-> req_id]

\* finalize_request once user_data holds every key it reads: the last step of
\* the request conversation
finalize_request(tg, category, description, address, lat, lon, mode, down) ==
    LET g == get_or_create_user(users, executors, tg, "client")
        req_id == Len(requests) + 1
        rq == new_request(requests, g.uid, category, description, address, NoText,
                          lat, lon, mode)
        candidates == find_candidates(rq, g.executors, prefer_owner_first, req_id)
    IN  /\ users' = g.users
        /\ executors' = g.executors
        /\ requests' = rq
        /\ sessions' = [sessions EXCEPT ![tg.id].req_conv = "END",
                                        ![tg.id].user_data = NoData]
        /\ out' = IF mode = "auction"
                  THEN <<reply(tg, "created", req_id)>>
                       \o (IF candidates # <<>>
                           THEN broadcast(g.users, rq, req_id, candidates, down)
                           ELSE <<reply(tg, "no_candidates", req_id)>>)
                  ELSE IF candidates = <<>>
                       THEN <<reply(tg, "no_candidates", req_id)>>
                       ELSE <<[to |-> tg.id, ok |-> TRUE, kind |-> "catalog",
                               req_id |-> req_id,
                               entries |-> catalog_entries(req_id, candidates)],
                              reply(tg, "done", req_id)>>
        /\ ret' = [op |-> "finalize_request", tg_id |-> tg.id, req_id |-> req_id]
        /\ UNCHANGED <<offers, deals, prefer_owner_first, accepts, calls>>

(***************************************************************************)
(* Targeted send: the catalog follow-up and the admin's assign             *)
(***************************************************************************)
\* the notification of a targeted send, with the "offer" token (req_id, exec_id)
targeted_notice(rq, kind, req_id, exid) ==
    [to |-> NULL, ok |-> FALSE, kind |-> kind, req_id |-> req_id, exec_id |-> exid,
     category |-> rq[req_id].category, description |-> rq[req_id].description,
     address |-> rq[req_id].address_text]

\* (mutant) send_to_executor returning True also after send_message raised
delivered_if_resolved(sent) == sent # <<>>

\* ok: the value send_to_executor returned, given the attempts it made
delivered(sent) == sent # <<>> /\ sent[1].ok

\* what both handlers do once the ids are parsed
targeted_send(tg, op, kind, req_id, exid, down) ==
    LET req == get_request(requests, req_id)
        ex == get_executor(executors, exid)
        sent == send_to_executor(users, executors[ex].user_id, executors[ex].direct_tg_id,
                                 targeted_notice(requests, kind, req_id, exid), down)
    IN  /\ out' = IF req = NULL \/ ex = NULL
                  THEN <<reply(tg, "targeted_not_found", req_id)>>
                  ELSE sent \o <<[to |-> tg.id, ok |-> TRUE, kind |-> "targeted_result",
                                  req_id |-> req_id, exec_id |-> exid,
                                  delivered |-> delivered(sent)]>>
        /\ ret' = [op |-> op, tg_id |-> tg.id, req_id |-> req_id, exec_id |-> exid]
        /\ UNCHANGED <<tables, accepts, calls, sessions>>

\* the "req_offer:<req_id>:<exid>" button of the catalog list
on_request_offer(tg, req_id, exid, down) ==
    targeted_send(tg, "on_request_offer", "offer_request", req_id, exid, down)

\* /admin assign <request_id> <executor_id>
cmd_admin_assign(tg, rid, exid, down) ==
    IF is_admin(tg.id)
    THEN targeted_send(tg, "cmd_admin_assign", "admin_assign", rid, exid, down)
    ELSE /\ ret' = NoRet
         /\ out' = <<>>
         /\ UNCHANGED <<tables, accepts, calls, sessions>>

\* /admin set_loc <exec_id>: the executor id waits in user_data for a location
cmd_admin_set_loc(tg, exid) ==
    /\ sessions' = IF is_admin(tg.id)
                   THEN [sessions EXCEPT ![tg.id].user_data.await_loc_for_exec = exid]
                   ELSE sessions
    /\ out' = IF is_admin(tg.id) THEN <<reply(tg, "send_location", NULL)>> ELSE <<>>
    /\ ret' = [op |-> "cmd_admin", sub |-> "set_loc", tg_id |-> tg.id]
    /\ UNCHANGED <<tables, accepts, calls>>

\* a location sent in reply to a message (filters.LOCATION & filters.REPLY)
on_location_reply(tg, lat, lon) ==
    LET exid == sessions[tg.id].user_data.await_loc_for_exec
    IN  /\ IF is_admin(tg.id) /\ exid # NULL
           THEN /\ executors' = set_executor_location(executors, exid, lat, lon)
                /\ sessions' = [sessions EXCEPT ![tg.id].user_data.await_loc_for_exec = NULL]
                /\ out' = <<reply(tg, "location_updated", NULL)>>
           ELSE /\ out' = <<>>
                /\ UNCHANGED <<executors, sessions>>
        /\ ret' = [op |-> "on_location_reply", tg_id |-> tg.id]
        /\ UNCHANGED <<users, requests, offers, deals, prefer_owner_first, accepts, calls>>

\* imenu:my, the list of one's own requests
cmd_my_inline(tg) ==
    LET g == get_or_create_user(users, executors, tg, "client")
        mine == SelectSeq([r \in DOMAIN requests |-> r],
                          LAMBDA r : requests[r].client_user_id = g.uid)
        \* ORDER BY id DESC LIMIT 10, each with the number of its offers
        rows == [i \in 1..(IF Len(mine) < 10 THEN Len(mine) ELSE 10) |->
                    [req_id |-> mine[Len(mine) + 1 - i],
                     offers |-> Cardinality({o \in DOMAIN offers :
                                    offers[o].request_id = mine[Len(mine) + 1 - i]})]]
    IN  /\ users' = g.users
        /\ executors' = g.executors
        /\ out' = IF rows = <<>>
                  THEN <<reply(tg, "no_requests", NULL)>>
                  ELSE <<[to |-> tg.id, ok |-> TRUE, kind |-> "my_requests",
                          req_id |-> NULL, entries |-> rows]>>
        /\ ret' = [op |-> "cmd_my_inline", tg_id |-> tg.id]
        /\ UNCHANGED <<requests, offers, deals, prefer_owner_first, accepts, calls, sessions>>

(***************************************************************************)
(* Operations of the store that no handler wraps with further logic        *)
(***************************************************************************)
SetExecutorLocation(exec_id, lat, lon) ==
    /\ executors' = set_executor_location(executors, exec_id, lat, lon)
    /\ ret' = NoRet
    /\ out' = <<>>
    /\ UNCHANGED <<users, requests, offers, deals, prefer_owner_first, accepts, calls, sessions>>

SetExecutorActive(exec_id, active) ==
    /\ executors' = set_executor_active(executors, exec_id, active)
    /\ ret' = NoRet
    /\ out' = <<>>
    /\ UNCHANGED <<users, requests, offers, deals, prefer_owner_first, accepts, calls, sessions>>

\* find_candidates as an operation: it only reads
FindCandidates(req_id) ==
    /\ ret' = [op |-> "find_candidates", req_id |-> req_id,
               val |-> find_candidates(requests, executors, prefer_owner_first, req_id)]
    /\ out' = <<>>
    /\ UNCHANGED <<users, executors, requests, offers, deals, prefer_owner_first, accepts, calls, sessions>>

(***************************************************************************)
(* DB layer: offers and deals                                              *)
(***************************************************************************)
create_offer(of, request_id, executor_id, rate_type, rate_value, comment) ==
    Append(of, [request_id |-> request_id,
                executor_id |-> executor_id,
                rate_type |-> rate_type,
                rate_value |-> rate_value,
                comment |-> comment,
                status |-> "active"])

\* (mutant) the UPDATE flips an offer that already has the status back to active
set_offer_status_toggle(of, offer_id, status) ==
    [i \in DOMAIN of |->
        IF i = offer_id
        THEN [of[i] EXCEPT !.status = IF of[i].status = status THEN "active" ELSE status]
        ELSE of[i]]

set_offer_status(of, offer_id, status) ==
    [i \in DOMAIN of |-> IF i = offer_id THEN [of[i] EXCEPT !.status = status] ELSE of[i]]

\* (mutant) the INSERT is skipped when the offer already has a deal
create_deal_unique(dl, request_id, offer_id) ==
    IF \E d \in DOMAIN dl : dl[d].offer_id = offer_id
    THEN dl
    ELSE Append(dl, [request_id |-> request_id,
                     offer_id |-> offer_id,
                     contacts_released |-> FALSE])

create_deal(dl, request_id, offer_id) ==
    Append(dl, [request_id |-> request_id,
                offer_id |-> offer_id,
                contacts_released |-> FALSE])

\* (mutant) the UPDATE goes to the newest deal instead of the deal of the call
release_contacts_last(dl, deal_id) ==
    [i \in DOMAIN dl |->
        IF i = Len(dl) THEN [dl[i] EXCEPT !.contacts_released = TRUE] ELSE dl[i]]

release_contacts(dl, deal_id) ==
    [i \in DOMAIN dl |->
        IF i = deal_id THEN [dl[i] EXCEPT !.contacts_released = TRUE] ELSE dl[i]]

(***************************************************************************)
(* Offer lifecycle                                                         *)
(***************************************************************************)
NoContact == [kind |-> "none", handle |-> NoText, id |-> NULL]

\* the executor contact shown to the accepting client
resolve_contact(us, exec_user_id, direct_tg_id) ==
    IF exec_user_id # NULL
    THEN IF username_by_user_id(us, exec_user_id) # NoText
         THEN [kind |-> "handle", handle |-> username_by_user_id(us, exec_user_id), id |-> NULL]
         ELSE NoContact
    ELSE IF direct_tg_id # NULL
         THEN [kind |-> "link", handle |-> NoText, id |-> direct_tg_id]
         ELSE NoContact

\* (mutant) the notification names the executor by its contact
offer_notice_with_contact(client_tg, offer_id, rid, exid, rt, rv, comment, down) ==
    [to |-> client_tg, ok |-> client_tg \notin down, kind |-> "new_offer",
     offer_id |-> offer_id, req_id |-> rid, rate_type |-> rt, rate_value |-> rv,
     comment |-> comment, label |-> exid,
     contact |-> resolve_contact(users, executors[exid].user_id, executors[exid].direct_tg_id)]

\* the "new offer" notification the client gets: the executor appears as E-<id>
offer_notice(client_tg, offer_id, rid, exid, rt, rv, comment, down) ==
    [to |-> client_tg, ok |-> client_tg \notin down, kind |-> "new_offer",
     offer_id |-> offer_id, req_id |-> rid, rate_type |-> rt, rate_value |-> rv,
     comment |-> comment, label |-> exid, contact |-> NoContact]

\* on_offer_comment: the last step of the offer conversation (Submit)
on_offer_comment(rid, exid, rt, rv, text, down) ==
    LET comment == mask_contacts(text)
        offer_id == Len(offers) + 1
        client_tg == IF get_request(requests, rid) # NULL
                     THEN tg_id_by_user_id(users, requests[rid].client_user_id)
                     ELSE NULL
    IN  /\ offers' = create_offer(offers, rid, exid, rt, rv, comment)
        /\ out' = IF client_tg # NULL
                  THEN <<offer_notice(client_tg, offer_id, rid, exid, rt, rv, comment, down)>>
                  ELSE <<>>
        /\ ret' = NoRet
        /\ UNCHANGED <<users, executors, requests, deals, prefer_owner_first, accepts, calls, sessions>>

\* (mutant) the writes come before the `if not row` test: a missing offer gets
\* a Deal before it is reported
accept_lookup_late_check(s, tg, offer_id) ==
    /\ accepts[s].pc = "idle"
    /\ offer_id \notin DOMAIN offers
    /\ deals' = release_contacts(create_deal(deals, NULL, offer_id), Len(deals) + 1)
    /\ out' = <<[to |-> tg.id, ok |-> TRUE, kind |-> "offer_not_found",
                 offer_id |-> offer_id, contact |-> NoContact]>>
    /\ ret' = [op |-> "on_accept_offer", found |-> FALSE, offer_id |-> offer_id,
               tg_id |-> tg.id]
    /\ UNCHANGED <<users, executors, requests, offers, prefer_owner_first, accepts, calls, sessions>>

\* on_accept_offer, up to the lookup of the offer joined with its executor
accept_lookup(s, tg, offer_id) ==
    /\ accepts[s].pc = "idle"
    /\ IF offer_id \notin DOMAIN offers
       THEN /\ out' = <<[to |-> tg.id, ok |-> TRUE, kind |-> "offer_not_found",
                         offer_id |-> offer_id, contact |-> NoContact]>>
            /\ ret' = [op |-> "on_accept_offer", found |-> FALSE, offer_id |-> offer_id,
                       tg_id |-> tg.id]
            /\ UNCHANGED <<accepts, calls>>
       ELSE LET o == offers[offer_id]
                e == get_executor(executors, o.executor_id)
            IN  /\ accepts' = [accepts EXCEPT ![s] =
                        [pc |-> "set_offer_status", tg_id |-> tg.id,
                         offer_id |-> offer_id,
                         request_id |-> o.request_id,
                         exec_id |-> o.executor_id,
                         exec_user_id |-> IF e # NULL THEN executors[e].user_id ELSE NULL,
                         direct_tg_id |-> IF e # NULL THEN executors[e].direct_tg_id ELSE NULL,
                         deal_id |-> NULL]]
                /\ UNCHANGED calls
                /\ out' = <<>>
                /\ ret' = NoRet
    /\ UNCHANGED <<users, executors, requests, offers, deals, prefer_owner_first, sessions>>

\* (mutant) the status is left for later: the call goes on to create the deal
accept_set_offer_status_skip(s) ==
    /\ accepts[s].pc = "set_offer_status"
    /\ UNCHANGED calls
    /\ accepts' = [accepts EXCEPT ![s].pc = "create_deal"]
    /\ out' = <<>>
    /\ ret' = NoRet
    /\ UNCHANGED <<users, executors, requests, offers, deals, prefer_owner_first, sessions>>

\* await set_offer_status(offer_id, "accepted")
accept_set_offer_status(s) ==
    /\ accepts[s].pc = "set_offer_status"
    /\ offers' = set_offer_status(offers, accepts[s].offer_id, "accepted")
    /\ UNCHANGED calls
    /\ accepts' = [accepts EXCEPT ![s].pc = "create_deal"]
    /\ out' = <<>>
    /\ ret' = NoRet
    /\ UNCHANGED <<users, executors, requests, deals, prefer_owner_first, sessions>>

\* (mutant) create_deal is called with its two arguments in the other order
accept_create_deal_swapped(s) ==
    /\ accepts[s].pc = "create_deal"
    /\ deals' = create_deal(deals, accepts[s].offer_id, accepts[s].request_id)
    /\ UNCHANGED calls
    /\ accepts' = [accepts EXCEPT ![s].pc = "release_contacts",
                                  ![s].deal_id = Len(deals) + 1]
    /\ out' = <<>>
    /\ ret' = NoRet
    /\ UNCHANGED <<users, executors, requests, offers, prefer_owner_first, sessions>>

\* deal_id = await create_deal(request_id, offer_id)
accept_create_deal(s) ==
    /\ accepts[s].pc = "create_deal"
    /\ deals' = create_deal(deals, accepts[s].request_id, accepts[s].offer_id)
    /\ UNCHANGED calls
    /\ accepts' = [accepts EXCEPT ![s].pc = "release_contacts",
                                  ![s].deal_id = Len(deals) + 1]
    /\ out' = <<>>
    /\ ret' = NoRet
    /\ UNCHANGED <<users, executors, requests, offers, prefer_owner_first, sessions>>

\* await release_contacts(deal_id)
accept_release_contacts(s) ==
    /\ accepts[s].pc = "release_contacts"
    /\ deals' = release_contacts(deals, accepts[s].deal_id)
    /\ UNCHANGED calls
    /\ accepts' = [accepts EXCEPT ![s].pc = "reply"]
    /\ out' = <<>>
    /\ ret' = NoRet
    /\ UNCHANGED <<users, executors, requests, offers, prefer_owner_first, sessions>>

\* the "your offer was accepted" notification to the executor, if any
accepted_notice(us, rq, a, down) ==
    LET client_tg == IF get_request(rq, a.request_id) # NULL
                     THEN tg_id_by_user_id(us, rq[a.request_id].client_user_id)
                     ELSE NULL
        ex_tg == IF a.exec_user_id # NULL
                 THEN tg_id_by_user_id(us, a.exec_user_id)
                 ELSE a.direct_tg_id
    IN  IF client_tg # NULL /\ ex_tg # NULL
        THEN <<[to |-> ex_tg, ok |-> ex_tg \notin down, kind |-> "offer_accepted",
                offer_id |-> a.offer_id, req_id |-> a.request_id,
                client |-> username_by_user_id(us, rq[a.request_id].client_user_id)]>>
        ELSE <<>>

\* the reply with the deal and the contact, and the notification of the executor
accept_reply(s, down) ==
    LET a == accepts[s]
        contact == resolve_contact(users, a.exec_user_id, a.direct_tg_id)
    IN  /\ a.pc = "reply"
        /\ out' = <<[to |-> a.tg_id, ok |-> TRUE, kind |-> "deal",
                     offer_id |-> a.offer_id, deal_id |-> a.deal_id,
                     contact |-> contact]>>
                  \o accepted_notice(users, requests, a, down)
        /\ ret' = [op |-> "on_accept_offer", found |-> TRUE, offer_id |-> a.offer_id,
                   deal_id |-> a.deal_id, contact |-> contact,
                   exec_user_id |-> a.exec_user_id, direct_tg_id |-> a.direct_tg_id]
        /\ UNCHANGED calls
        /\ accepts' = [accepts EXCEPT ![s] = Idle]
        /\ UNCHANGED <<users, executors, requests, offers, deals, prefer_owner_first, sessions>>

\* the process stops while an on_accept_offer call is between two of its awaits:
\* the writes already committed stay, the rest of the call never runs
accept_interrupted(s) ==
    /\ accepts[s].pc \in {"set_offer_status", "create_deal", "release_contacts", "reply"}
    /\ UNCHANGED calls
    /\ accepts' = [accepts EXCEPT ![s] = Idle]
    /\ out' = <<>>
    /\ ret' = [op |-> "interrupted", pc |-> accepts[s].pc, offer_id |-> accepts[s].offer_id]
    /\ UNCHANGED tables
    /\ UNCHANGED sessions

(***************************************************************************)
(* Initial state: the tables as db_init leaves them                        *)
(***************************************************************************)
Init ==
    /\ users = <<>>
    /\ executors = <<>>
    /\ requests = <<>>
    /\ offers = <<>>
    /\ deals = <<>>
    /\ prefer_owner_first = TRUE
    /\ accepts = [s \in 1..MaxAccepts |-> Idle]
    /\ calls = <<>>
    /\ sessions = [a \in ActorIds |-> NoSession]
    /\ ret = NoRet
    /\ out = <<>>

(***************************************************************************)
(* SpecMatch: the executors table, requests and the matcher                *)
(***************************************************************************)
Admin == [id |-> 1, username |-> "root"]

Alice == [id |-> 2, username |-> "alice"]

\* the category lists "a" and "ab, b" as an admin types them
MatchCats == { <<"a">>, <<"a", "b", ",", " ", "b">> }

MatchRadii == {1112, 50000}

MatchExecPoints == {P1, P2}

NextMatch ==
    \/ \E v \in BOOLEAN : cmd_admin_prefer_owner(Admin, v)
    \/ \E cats \in MatchCats, radius \in MatchRadii, owner \in BOOLEAN :
           /\ Len(executors) < MaxExecutors
           /\ cmd_admin_add_executor(Admin, "bob", "c", radius, cats, owner)
    \/ \E e \in 1..MaxExecutors, p \in MatchExecPoints : SetExecutorLocation(e, p[1], p[2])
    \/ \E e \in 1..MaxExecutors, a \in BOOLEAN : SetExecutorActive(e, a)
    \/ \E i \in DOMAIN CATEGORY_CHOICES :
           /\ requests = <<>>
           /\ finalize_request(Alice, CATEGORY_CHOICES[i], mask_contacts(<<"d", "i", "g">>), <<"m", "s", "k">>,
                               P0[1], P0[2], "catalog", {})
    \/ \E r \in 1..MaxRequests : FindCandidates(r)

SpecMatch == Init /\ [][NextMatch]_vars

(***************************************************************************)
(* SpecOrder: the ordering of the matches, with more executors of one      *)
(* category and one radius                                                 *)
(***************************************************************************)
OrderExecPoints == {P0, P1, P2}

NextOrder ==
    \/ \E v \in BOOLEAN : cmd_admin_prefer_owner(Admin, v)
    \/ \E owner \in BOOLEAN :
           /\ Len(executors) < MaxOrderExecutors
           /\ cmd_admin_add_executor(Admin, "bob", "c", 50000, <<"a">>, owner)
    \/ \E e \in 1..MaxOrderExecutors, p \in OrderExecPoints :
           SetExecutorLocation(e, p[1], p[2])
    \/ /\ requests = <<>>
       /\ finalize_request(Alice, <<"a">>, mask_contacts(<<"d", "i", "g">>), <<"m", "s", "k">>,
                           P0[1], P0[2], "catalog", {})
    \/ FindCandidates(1)

SpecOrder == Init /\ [][NextOrder]_vars

(***************************************************************************)
(* SpecDispatch: broadcast in auction mode and targeted sends, with        *)
(* executors that are bound, direct, or not reachable yet, and channels    *)
(* the transport cannot reach                                              *)
(***************************************************************************)
Dave == [id |-> 4, username |-> "dave"]

\* the sets of channel ids that are down during one handler
DownSets == {{}, {3}}

NextDispatch ==
    \/ start(Dave)
    \/ /\ Len(executors) < MaxDispatchExecutors
       /\ cmd_admin_add_exec_id(Admin, 3, "c", 50000, <<"a">>, FALSE)
    \/ /\ Len(executors) < MaxDispatchExecutors
       /\ cmd_admin_add_exec_id(Admin, Dave.id, "c", 50000, <<"a">>, FALSE)
    \/ /\ Len(executors) < MaxDispatchExecutors
       /\ cmd_admin_add_executor(Admin, "dave", "c", 50000, <<"a">>, FALSE)
    \/ \E e \in 1..MaxDispatchExecutors : SetExecutorLocation(e, P1[1], P1[2])
    \/ \E mode \in {"auction", "catalog"}, down \in DownSets :
           /\ Len(requests) < MaxDispatchRequests
           /\ finalize_request(Alice, <<"a">>, mask_contacts(<<"d", "i", "g">>),
                               <<"m", "s", "k">>, P0[1], P0[2], mode, down)
    \/ \E r \in 1..(MaxDispatchRequests + 1), e \in 1..(MaxDispatchExecutors + 1),
          down \in DownSets :
           on_request_offer(Alice, r, e, down)
    \/ \E r \in 1..(MaxDispatchRequests + 1), e \in 1..(MaxDispatchExecutors + 1),
          down \in DownSets :
           cmd_admin_assign(Admin, r, e, down)
    \/ cmd_admin_assign(Alice, 1, 1, {})

SpecDispatch == Init /\ [][NextDispatch]_vars

(***************************************************************************)
(* SpecCatalog: the catalog list when there are about DISPLAY_CAP          *)
(* candidates.  The executors are registered and located before the first  *)
(* step: executor i has the direct channel id 100 + i, every third one is  *)
(* an owner, and they alternate between two locations.                     *)
(***************************************************************************)
CatalogExecutor(i) ==
    [user_id |-> NULL,
     pending_username |-> NoText,
     direct_tg_id |-> 100 + i,
     categories |-> <<"a">>,
     city |-> "c",
     lat |-> IF i % 2 = 0 THEN P1[1] ELSE P2[1],
     lon |-> IF i % 2 = 0 THEN P1[2] ELSE P2[2],
     radius_km |-> 50000,
     is_owner |-> (i % 3 = 0),
     is_active |-> TRUE]

InitCatalog ==
    /\ users = <<>>
    /\ \E n \in (DISPLAY_CAP - 1)..MaxCatalogExecutors :
           executors = [i \in 1..n |-> CatalogExecutor(i)]
    /\ requests = <<>>
    /\ offers = <<>>
    /\ deals = <<>>
    /\ prefer_owner_first = TRUE
    /\ accepts = [s \in 1..MaxAccepts |-> Idle]
    /\ calls = <<>>
    /\ sessions = [a \in ActorIds |-> NoSession]
    /\ ret = NoRet
    /\ out = <<>>

NextCatalog ==
    \/ \E v \in BOOLEAN : cmd_admin_prefer_owner(Admin, v)
    \/ \E e \in 1..3, a \in BOOLEAN : SetExecutorActive(e, a)
    \/ \E mode \in {"auction", "catalog"} :
           /\ Len(requests) < MaxCatalogRequests
           /\ finalize_request(Alice, <<"a">>, mask_contacts(<<"d", "i", "g">>),
                               <<"m", "s", "k">>, P0[1], P0[2], mode, {})

SpecCatalog == InitCatalog /\ [][NextCatalog]_vars

(***************************************************************************)
(* The request conversation (req_conv) and what can interleave with it.    *)
(* Updates of one actor are handled one at a time; the first handler that  *)
(* takes an update is start_conv, then req_conv, then the global routes.   *)
(***************************************************************************)
MODE_SEL == "MODE_SEL"

CAT_SEL == "CAT_SEL"

DESC_IN == "DESC_IN"

LOC_CHOICE == "LOC_CHOICE"

ADDR_IN == "ADDR_IN"

GEO_PICK == "GEO_PICK"

\* the literals on_loc_choice compares the lowered text with, as the file has
\* them ("uc_W" is a letter that str.lower() changes)
ADDRESS_WORD ==
    <<"uc_x", "uc_x", "uc_x", "uc_x", "uc_x", "uc_W", "uc_x", "uc_w", "uc_x", "uc_W">>

ENTER_WORD ==
    <<"uc_x", "uc_x", "uc_x", "uc_x", "uc_x", "uc_w", "uc_x", "uc_W", "uc_x", "uc_W",
      "uc_x", "uc_x">>

PENCIL == <<"uc_x", "uc_w", "uc_w", "uc_W", "uc_x", "uc_w">>

\* the label of the third button of desc_input's keyboard, and the literal
\* on_loc_choice tests for
CANCEL_LABEL ==
    <<"uc_x", "uc_w", "uc_w", " ", "uc_x", "uc_w", "uc_x", "uc_W", "uc_x", "uc_w",
      "uc_x", "uc_w", "uc_x", "uc_W", "uc_x", "uc_x">>

\* the label reverse_geocode's missing name is replaced with
MAP_LOCATION_LABEL == <<"m", "a", "p">>

\* lit is in txt at i, compared as it is
Exactly(txt, i, lit) ==
    /\ i + Len(lit) - 1 <= Len(txt)
    /\ \A k \in DOMAIN lit : txt[i + k - 1] = lit[k]

\* `lit in txt`
Contains(txt, lit) == \E i \in 1..Len(txt) : Exactly(txt, i, lit)

user_data(tg) == sessions[tg.id].user_data

\* the conversation state and user_data of one actor after a req_conv handler
Session(tg, state, data) ==
    sessions' = [sessions EXCEPT ![tg.id].req_conv = state, ![tg.id].user_data = data]

\* imenu:new, an entry point of req_conv
on_imenu_new(tg) ==
    /\ sessions[tg.id].req_conv = "END"
    /\ Session(tg, MODE_SEL, NoData)
    /\ out' = <<reply(tg, "choose_mode", NULL)>>
    /\ ret' = [op |-> "on_imenu", action |-> "new", tg_id |-> tg.id]
    /\ UNCHANGED <<tables, accepts, calls>>

\* imenu:catalog, the other entry point
on_imenu_catalog(tg) ==
    /\ sessions[tg.id].req_conv = "END"
    /\ Session(tg, CAT_SEL, [NoData EXCEPT !.req_mode = "catalog"])
    /\ out' = <<reply(tg, "choose_category", NULL)>>
    /\ ret' = [op |-> "on_imenu", action |-> "catalog", tg_id |-> tg.id]
    /\ UNCHANGED <<tables, accepts, calls>>

\* imenu:home, a global route: no state of req_conv takes it
on_imenu_home(tg) ==
    /\ sessions' = [sessions EXCEPT ![tg.id].user_data = NoData]
    /\ out' = <<reply(tg, "home", NULL)>>
    /\ ret' = [op |-> "on_imenu", action |-> "home", tg_id |-> tg.id]
    /\ UNCHANGED <<tables, accepts, calls>>

\* /menu, a global route: the message handlers of req_conv exclude commands
cmd_menu(tg) ==
    /\ sessions' = [sessions EXCEPT ![tg.id].user_data = NoData]
    /\ out' = <<reply(tg, "home", NULL)>>
    /\ ret' = [op |-> "cmd_menu", tg_id |-> tg.id]
    /\ UNCHANGED <<tables, accepts, calls>>

set_role(us, tg_id, role) ==
    [u \in DOMAIN us |-> IF us[u].tg_id = tg_id THEN [us[u] EXCEPT !.role = role] ELSE us[u]]

\* (mutant) role:admin is stored like the other two roles
on_role_unchecked(tg, role) ==
    /\ sessions[tg.id].start_conv = "ROLE_SEL"
    /\ users' = set_role(users, tg.id, role)
    /\ sessions' = [sessions EXCEPT ![tg.id].start_conv = "END"]
    /\ out' = <<reply(tg, "home", NULL)>>
    /\ ret' = [op |-> "on_role", tg_id |-> tg.id, role |-> role]
    /\ UNCHANGED <<executors, requests, offers, deals, prefer_owner_first, accepts, calls>>

\* role:<role>, the only state handler of start_conv
on_role(tg, role) ==
    /\ sessions[tg.id].start_conv = "ROLE_SEL"
    /\ users' = IF role \in {"client", "executor"} \/ (role = "admin" /\ is_admin(tg.id))
                THEN set_role(users, tg.id, role)
                ELSE users
    /\ sessions' = [sessions EXCEPT ![tg.id].start_conv = "END"]
    /\ out' = <<reply(tg, "home", NULL)>>
    /\ ret' = [op |-> "on_role", tg_id |-> tg.id, role |-> role]
    /\ UNCHANGED <<executors, requests, offers, deals, prefer_owner_first, accepts, calls>>

on_mode_pick(tg, mode) ==
    /\ sessions[tg.id].req_conv = MODE_SEL
    /\ Session(tg, CAT_SEL, [user_data(tg) EXCEPT !.req_mode = mode])
    /\ out' = <<reply(tg, "choose_category", NULL)>>
    /\ ret' = [op |-> "on_mode_pick", tg_id |-> tg.id]
    /\ UNCHANGED <<tables, accepts, calls>>

\* cat:<idx>, idx counted from 0
on_cat_pick(tg, idx) ==
    /\ sessions[tg.id].req_conv = CAT_SEL
    /\ IF idx < 0 \/ idx >= Len(CATEGORY_CHOICES)
       THEN /\ Session(tg, CAT_SEL, user_data(tg))
            /\ out' = <<reply(tg, "choose_category", NULL)>>
       ELSE /\ Session(tg, DESC_IN, [user_data(tg) EXCEPT !.req_cat = CATEGORY_CHOICES[idx + 1]])
            /\ out' = <<reply(tg, "describe", NULL)>>
    /\ ret' = [op |-> "on_cat_pick", tg_id |-> tg.id]
    /\ UNCHANGED <<tables, accepts, calls>>

\* (mutant) the description is kept as it was typed
desc_input_raw(tg, text) ==
    /\ sessions[tg.id].req_conv = DESC_IN
    /\ Session(tg, LOC_CHOICE, [user_data(tg) EXCEPT !.req_desc = text])
    /\ out' = <<reply(tg, "choose_location", NULL)>>
    /\ ret' = [op |-> "desc_input", tg_id |-> tg.id]
    /\ UNCHANGED <<tables, accepts, calls>>

desc_input(tg, text) ==
    /\ sessions[tg.id].req_conv = DESC_IN
    /\ Session(tg, LOC_CHOICE, [user_data(tg) EXCEPT !.req_desc = mask_contacts(text)])
    /\ out' = <<reply(tg, "choose_location", NULL)>>
    /\ ret' = [op |-> "desc_input", tg_id |-> tg.id]
    /\ UNCHANGED <<tables, accepts, calls>>

\* finalize_request with user_data as the handler before it left it.  The row
\* is written after get_or_create_user; a key that is read with [] and is not
\* there raises, which leaves the conversation where it was.
finalize_request_from(tg, op, data, down) ==
    IF data.req_cat = <<>> \/ data.req_desc = <<>>
    THEN LET g == get_or_create_user(users, executors, tg, "client")
         IN  /\ users' = g.users
             /\ executors' = g.executors
             /\ sessions' = [sessions EXCEPT ![tg.id].user_data = data]
             /\ out' = <<>>
             /\ ret' = [op |-> op, tg_id |-> tg.id, raised |-> TRUE]
             /\ UNCHANGED <<requests, offers, deals, prefer_owner_first, accepts, calls>>
    ELSE finalize_request(tg, data.req_cat, data.req_desc,
                          IF data.req_addr_resolved # <<>> THEN data.req_addr_resolved
                                                            ELSE data.req_addr,
                          data.req_lat, data.req_lon,
                          IF data.req_mode = NoText THEN "auction" ELSE data.req_mode,
                          down)

\* what geocode_address can return
GeoResults ==
    { <<>>,
      <<[display_name |-> <<>>, lat |-> P1[1], lon |-> P1[2]],
        [display_name |-> <<"S", "p", "b">>, lat |-> P3[1], lon |-> P3[2]]>> }

\* geocode_address raises (the transport fails) or returns
GeoOutcomes ==
    {[raised |-> TRUE, results |-> <<>>]}
    \cup {[raised |-> FALSE, results |-> r] : r \in GeoResults}

\* reverse_geocode raises, returns no name, or returns a name
ReverseOutcomes ==
    { [raised |-> TRUE, name |-> <<>>],
      [raised |-> FALSE, name |-> <<>>],
      [raised |-> FALSE, name |-> <<"M", "s", "k">>] }

\* do_geocode, with req_addr already written by its caller
do_geocode(tg, op, text, data, geo) ==
    /\ IF geo.raised
       THEN /\ Session(tg, sessions[tg.id].req_conv, data)
            /\ out' = <<>>
       ELSE IF geo.results = <<>>
       THEN /\ Session(tg, ADDR_IN, data)
            /\ out' = <<reply(tg, "address_not_found", NULL)>>
       ELSE /\ Session(tg, GEO_PICK, [data EXCEPT !.geocode_results = geo.results])
            /\ out' = <<reply(tg, "choose_result", NULL)>>
    /\ ret' = [op |-> op, tg_id |-> tg.id, text |-> text]
    /\ UNCHANGED <<tables, accepts, calls>>

\* on_loc_choice for a message that carries a location; rev is the outcome
\* of reverse_geocode
on_loc_choice_location(tg, lat, lon, rev, down) ==
    /\ sessions[tg.id].req_conv = LOC_CHOICE
    /\ IF rev.raised
       THEN /\ ret' = [op |-> "on_loc_choice", tg_id |-> tg.id, raised |-> TRUE]
            /\ out' = <<>>
            /\ UNCHANGED <<tables, accepts, calls, sessions>>
       ELSE finalize_request_from(tg, "on_loc_choice",
                [user_data(tg) EXCEPT !.req_lat = lat, !.req_lon = lon,
                                      !.req_addr_resolved =
                                          IF rev.name = <<>> THEN MAP_LOCATION_LABEL
                                                              ELSE rev.name],
                down)

\* on_loc_choice for a text message
on_loc_choice(tg, text, geo) ==
    LET txt == LowerText(Strip(text))
    IN  /\ sessions[tg.id].req_conv = LOC_CHOICE
        /\ IF Contains(txt, ADDRESS_WORD) \/ Contains(txt, ENTER_WORD)
              \/ Exactly(txt, 1, PENCIL)
           THEN /\ Session(tg, ADDR_IN, user_data(tg))
                /\ out' = <<reply(tg, "type_address", NULL)>>
                /\ ret' = [op |-> "on_loc_choice", tg_id |-> tg.id, text |-> text]
                /\ UNCHANGED <<tables, accepts, calls>>
           ELSE IF txt = CANCEL_LABEL
           THEN /\ Session(tg, "END", NoData)
                /\ out' = <<reply(tg, "cancelled", NULL)>>
                /\ ret' = [op |-> "on_loc_choice", tg_id |-> tg.id, text |-> text]
                /\ UNCHANGED <<tables, accepts, calls>>
           ELSE do_geocode(tg, "on_loc_choice", text,
                           [user_data(tg) EXCEPT !.req_addr = Strip(text)], geo)

addr_input(tg, text, geo) ==
    /\ sessions[tg.id].req_conv = ADDR_IN
    /\ do_geocode(tg, "addr_input", text, [user_data(tg) EXCEPT !.req_addr = Strip(text)], geo)

\* geo_pick:<idx>, idx counted from 0
on_geo_pick(tg, idx, down) ==
    LET results == user_data(tg).geocode_results
    IN  /\ sessions[tg.id].req_conv = GEO_PICK
        /\ IF results = <<>> \/ idx < 0 \/ idx >= Len(results)
           THEN /\ Session(tg, ADDR_IN, user_data(tg))
                /\ out' = <<reply(tg, "invalid_choice", NULL)>>
                /\ ret' = [op |-> "on_geo_pick", tg_id |-> tg.id]
                /\ UNCHANGED <<tables, accepts, calls>>
           ELSE finalize_request_from(tg, "on_geo_pick",
                    [user_data(tg) EXCEPT !.req_lat = results[idx + 1].lat,
                                          !.req_lon = results[idx + 1].lon,
                                          !.req_addr_resolved = results[idx + 1].display_name],
                    down)

(***************************************************************************)
(* float(text.replace(",", ".")) of on_rate_value                          *)
(***************************************************************************)
replace_comma(s) == [i \in DOMAIN s |-> IF s[i] = "," THEN "." ELSE s[i]]

CharAt(s, i) == IF i \in DOMAIN s THEN s[i] ELSE ""

\* the index after the digit part (digits, single underscores between them) that
\* starts at i, 0 when s has no digit at i
RECURSIVE DigitsEnd(_, _)
DigitsEnd(s, i) ==
    IF ~IsDigit(CharAt(s, i)) THEN 0
    ELSE IF IsDigit(CharAt(s, i + 1)) THEN DigitsEnd(s, i + 1)
    ELSE IF CharAt(s, i + 1) = "_" /\ IsDigit(CharAt(s, i + 2)) THEN DigitsEnd(s, i + 2)
    ELSE i + 1

DigitValue(c) == CHOOSE n \in 0..9 : ToString(n) = c

\* the number written by the digits of s in i..(j - 1), underscores skipped
RECURSIVE DigitsNumber(_, _, _, _)
DigitsNumber(s, i, j, acc) ==
    IF i >= j THEN acc
    ELSE IF s[i] = "_" THEN DigitsNumber(s, i + 1, j, acc)
    ELSE DigitsNumber(s, i + 1, j, acc * 10 + DigitValue(s[i]))

RECURSIVE CountDigits(_, _, _)
CountDigits(s, i, j) ==
    IF i >= j THEN 0
    ELSE (IF IsDigit(s[i]) THEN 1 ELSE 0) + CountDigits(s, i + 1, j)

RECURSIVE normal_float(_, _, _)
normal_float(neg, mant, exp) ==
    IF mant = 0 THEN [kind |-> "finite", neg |-> neg, mant |-> 0, exp |-> 0]
    ELSE IF mant % 10 = 0 THEN normal_float(neg, mant \div 10, exp + 1)
    ELSE [kind |-> "finite", neg |-> neg, mant |-> mant, exp |-> exp]

\* float(s): the value, or kind "ValueError" when float raises
float(s) ==
    LET t == Strip(s)
        n == Len(t)
        neg == CharAt(t, 1) = "-"
        a == IF CharAt(t, 1) \in {"+", "-"} THEN 2 ELSE 1
        word == LowerText(SubSeq(t, a, n))
        d1 == DigitsEnd(t, a)
        p == IF d1 # 0 THEN d1 ELSE a
        d2 == IF CharAt(t, p) = "." THEN DigitsEnd(t, p + 1) ELSE 0
        \* the index after the mantissa, 0 when there is none
        m == IF CharAt(t, p) = "."
             THEN (IF d2 # 0 THEN d2 ELSE IF d1 # 0 THEN p + 1 ELSE 0)
             ELSE d1
        has_exp == m # 0 /\ Lower(CharAt(t, m)) = "e"
        eneg == CharAt(t, m + 1) = "-"
        q == IF CharAt(t, m + 1) \in {"+", "-"} THEN m + 2 ELSE m + 1
        d3 == IF has_exp THEN DigitsEnd(t, q) ELSE 0
        end == IF has_exp THEN d3 ELSE m
        bad == [kind |-> "ValueError", neg |-> FALSE, mant |-> 0, exp |-> 0]
    IN  IF word \in {<<"n", "a", "n">>}
        THEN [kind |-> "nan", neg |-> neg, mant |-> 0, exp |-> 0]
        ELSE IF word \in {<<"i", "n", "f">>, <<"i", "n", "f", "i", "n", "i", "t", "y">>}
        THEN [kind |-> "inf", neg |-> neg, mant |-> 0, exp |-> 0]
        ELSE IF end = 0 \/ end # n + 1 THEN bad
        ELSE LET ipart == IF d1 # 0 THEN DigitsNumber(t, a, d1, 0) ELSE 0
                 fdigits == IF d2 # 0 THEN CountDigits(t, p + 1, d2) ELSE 0
                 mant == IF d2 # 0 THEN DigitsNumber(t, p + 1, d2, ipart) ELSE ipart
                 e == IF has_exp THEN DigitsNumber(t, q, d3, 0) ELSE 0
             IN  normal_float(neg, mant, (IF eneg THEN 0 - e ELSE e) - fdigits)

(***************************************************************************)
(* The offer conversation (offer_conv), the third conversation of group 0  *)
(***************************************************************************)
OFFER_RATE_TYPE == "OFFER_RATE_TYPE"

OFFER_RATE_VALUE == "OFFER_RATE_VALUE"

OFFER_COMMENT == "OFFER_COMMENT"

\* a text message goes to req_conv, which comes first, when it waits for one
req_conv_takes_text(tg) == sessions[tg.id].req_conv \in {DESC_IN, LOC_CHOICE, ADDR_IN}

\* offer:<req_id>:<exec_id>, the entry point of offer_conv
on_offer_click(tg, req_id, exec_id) ==
    /\ sessions[tg.id].offer_conv = "END"
    /\ sessions' = [sessions EXCEPT ![tg.id].offer_conv = OFFER_RATE_TYPE,
                                    ![tg.id].user_data.offer_req_id = req_id,
                                    ![tg.id].user_data.offer_exec_id = exec_id]
    /\ out' = <<reply(tg, "choose_rate_type", req_id)>>
    /\ ret' = [op |-> "on_offer_click", tg_id |-> tg.id]
    /\ UNCHANGED <<tables, accepts, calls>>

\* rt:<rate type>
on_rate_type(tg, rt) ==
    /\ sessions[tg.id].offer_conv = OFFER_RATE_TYPE
    /\ sessions' = [sessions EXCEPT ![tg.id].offer_conv = OFFER_RATE_VALUE,
                                    ![tg.id].user_data.rate_type = rt]
    /\ out' = <<reply(tg, "enter_rate_value", NULL)>>
    /\ ret' = [op |-> "on_rate_type", tg_id |-> tg.id]
    /\ UNCHANGED <<tables, accepts, calls>>

\* a text in OFFER_RATE_VALUE
on_rate_value(tg, text) ==
    LET val == float(replace_comma(text))
    IN  /\ sessions[tg.id].offer_conv = OFFER_RATE_VALUE
        /\ ~req_conv_takes_text(tg)
        /\ IF val.kind = "ValueError"
           THEN /\ out' = <<reply(tg, "need_number", NULL)>>
                /\ UNCHANGED sessions
           ELSE /\ sessions' = [sessions EXCEPT ![tg.id].offer_conv = OFFER_COMMENT,
                                                ![tg.id].user_data.rate_value = val]
                /\ out' = <<reply(tg, "enter_comment", NULL)>>
        /\ ret' = [op |-> "on_rate_value", tg_id |-> tg.id, text |-> text,
                   accepted |-> val.kind # "ValueError"]
        /\ UNCHANGED <<tables, accepts, calls>>

\* a text in OFFER_COMMENT: on_offer_comment with user_data as the handlers
\* before it left it.  A key read with [] that is not there raises before
\* anything is written; send_message to the client is not guarded, so when it
\* fails the handler ends there, after create_offer, and the state is kept.
on_offer_comment_from(tg, text, down) ==
    LET data == user_data(tg)
        rid == data.offer_req_id
        exid == data.offer_exec_id
        comment == mask_contacts(text)
        offer_id == Len(offers) + 1
        client_tg == IF get_request(requests, rid) # NULL
                     THEN tg_id_by_user_id(users, requests[rid].client_user_id)
                     ELSE NULL
        notice == IF client_tg # NULL
                  THEN <<offer_notice(client_tg, offer_id, rid, exid, data.rate_type,
                                      data.rate_value, comment, down)>>
                  ELSE <<>>
    IN  /\ sessions[tg.id].offer_conv = OFFER_COMMENT
        /\ ~req_conv_takes_text(tg)
        /\ IF rid = NULL \/ exid = NULL \/ data.rate_type = NoText \/ data.rate_value = NoRate
           THEN /\ out' = <<>>
                /\ ret' = [op |-> "on_offer_comment", tg_id |-> tg.id, raised |-> "KeyError",
                           offer_id |-> NULL]
                /\ UNCHANGED <<offers, sessions>>
           ELSE /\ offers' = create_offer(offers, rid, exid, data.rate_type, data.rate_value,
                                          comment)
                /\ IF notice # <<>> /\ ~notice[1].ok
                   THEN /\ out' = notice
                        /\ ret' = [op |-> "on_offer_comment", tg_id |-> tg.id,
                                   raised |-> "send_message", offer_id |-> offer_id]
                        /\ UNCHANGED sessions
                   ELSE /\ out' = notice \o <<reply(tg, "offer_sent", rid)>>
                        /\ ret' = [op |-> "on_offer_comment", tg_id |-> tg.id,
                                   raised |-> "none", offer_id |-> offer_id]
                        /\ sessions' = [sessions EXCEPT ![tg.id].offer_conv = "END"]
        /\ UNCHANGED <<users, executors, requests, deals, prefer_owner_first, accepts, calls>>

\* the callback `cancel`: a fallback of start_conv, which comes first, then a
\* state handler or the fallback of req_conv, then of offer_conv
on_cancel(tg) ==
    /\ \/ sessions[tg.id].start_conv # "END"
       \/ sessions[tg.id].req_conv # "END"
       \/ sessions[tg.id].offer_conv # "END"
    /\ sessions' = [sessions EXCEPT ![tg.id] =
            IF sessions[tg.id].start_conv # "END"
            THEN [start_conv |-> "END", req_conv |-> sessions[tg.id].req_conv,
                  offer_conv |-> sessions[tg.id].offer_conv, user_data |-> NoData]
            ELSE IF sessions[tg.id].req_conv # "END"
            THEN [start_conv |-> "END", req_conv |-> "END",
                  offer_conv |-> sessions[tg.id].offer_conv, user_data |-> NoData]
            ELSE [start_conv |-> "END", req_conv |-> "END", offer_conv |-> "END",
                  user_data |-> NoData]]
    /\ out' = <<reply(tg, "home", NULL)>>
    /\ ret' = [op |-> "on_cancel", tg_id |-> tg.id]
    /\ UNCHANGED <<tables, accepts, calls>>

\* what the client types as a description, and as an address or instead of one
DescTexts ==
    { <<"d", "i", "g">>,
      <<"d", "i", "g", " ", "+", "7", "9", "0", "0", "1", "2", "3">> }

AddrTexts == { <<" ", "m", "s", "k">>, CANCEL_LABEL }

NextConv ==
    \/ start(Alice)
    \/ on_role(Alice, "client")
    \/ on_imenu_new(Alice)
    \/ on_imenu_catalog(Alice)
    \/ on_imenu_home(Alice)
    \/ cmd_menu(Alice)
    \/ \E mode \in {"auction", "catalog"} : on_mode_pick(Alice, mode)
    \/ \E idx \in 0..Len(CATEGORY_CHOICES) : on_cat_pick(Alice, idx)
    \/ \E text \in DescTexts : desc_input(Alice, text)
    \/ \E rev \in ReverseOutcomes :
           /\ Len(requests) < MaxConvRequests
           /\ on_loc_choice_location(Alice, P0[1], P0[2], rev, {})
    \/ \E text \in AddrTexts, geo \in GeoOutcomes :
           on_loc_choice(Alice, text, geo)
    \/ \E text \in AddrTexts, geo \in GeoOutcomes :
           addr_input(Alice, text, geo)
    \/ \E idx \in 0..2 :
           /\ Len(requests) < MaxConvRequests
           /\ on_geo_pick(Alice, idx, {})
    \/ on_cancel(Alice)
    \/ /\ Len(offers) < MaxConvOffers
       /\ 1 \in DOMAIN requests
       /\ on_offer_comment(1, 1, "hour", 50, <<"o", "k", " ", "@", "b", "o", "b">>, {})

\* one executor has been registered by channel id and has set its location
InitConv ==
    /\ users = <<>>
    /\ executors = <<[user_id |-> NULL, pending_username |-> NoText, direct_tg_id |-> 3,
                      city |-> "c", radius_km |-> 50000, categories |-> <<"a">>,
                      is_owner |-> FALSE, lat |-> P1[1], lon |-> P1[2],
                      is_active |-> TRUE]>>
    /\ requests = <<>>
    /\ offers = <<>>
    /\ deals = <<>>
    /\ prefer_owner_first = TRUE
    /\ accepts = [s \in 1..MaxAccepts |-> Idle]
    /\ calls = <<>>
    /\ sessions = [a \in ActorIds |-> NoSession]
    /\ ret = NoRet
    /\ out = <<>>

SpecConv == InitConv /\ [][NextConv]_vars

(***************************************************************************)
(* Administration and roles: the /admin command and the location reply     *)
(* come from an admin or from another actor; both actors also pick roles,  *)
(* create requests and list their requests.                                *)
(***************************************************************************)
\* /admin <sub> ... or a location reply sent by tg
AdminCommand(tg) ==
    \/ \E v \in BOOLEAN : cmd_admin_prefer_owner(tg, v)
    \/ /\ Len(executors) < MaxAdminExecutors
       /\ cmd_admin_add_executor(tg, "alice", "c", 50000, <<"a">>, FALSE)
    \/ /\ Len(executors) < MaxAdminExecutors
       /\ cmd_admin_add_exec_id(tg, 3, "c", 1112, <<"b">>, TRUE)
    \/ \E exid \in 1..MaxAdminExecutors : cmd_admin_set_loc(tg, exid)
    \/ on_location_reply(tg, P1[1], P1[2])
    \/ cmd_admin_assign(tg, 1, 1, {})

NextAdmin ==
    \/ \E tg \in {Admin, Alice} : start(tg)
    \/ \E tg \in {Admin, Alice}, role \in {"executor", "admin"} : on_role(tg, role)
    \/ \E tg \in {Admin, Alice} : cmd_my_inline(tg)
    \/ \E tg \in {Admin, Alice} :
           /\ Len(requests) < MaxAdminRequests
           /\ finalize_request(tg, <<"a">>, mask_contacts(<<"d", "i", "g">>),
                               <<"m", "s", "k">>, P0[1], P0[2], "catalog", {})
    \/ \E tg \in {Admin, Alice} : AdminCommand(tg)

SpecAdmin == Init /\ [][NextAdmin]_vars

(***************************************************************************)
(* Spec: requests, offers, acceptance and deals                            *)
(***************************************************************************)
Carl == [id |-> 3, username |-> NoText]

\* an "offer" token for (request, executor) reaches an executor only through
\* send_to_executor, so through a channel id resolved for that executor
can_offer(rid, exid) ==
    /\ rid \in DOMAIN requests
    /\ exid \in DOMAIN executors
    /\ resolve_chat_id(users, executors[exid].user_id, executors[exid].direct_tg_id) # NULL

Next ==
    \/ start(Carl)
    \/ /\ Len(executors) < MaxExecutors
       /\ cmd_admin_add_executor(Admin, "alice", "c", 50000, <<"a">>, FALSE)
    \/ /\ Len(executors) < MaxExecutors
       /\ cmd_admin_add_exec_id(Admin, Carl.id, "c", 50000, <<"a">>, TRUE)
    \/ /\ Len(requests) < MaxRequests
       /\ finalize_request(Alice, <<"a">>, mask_contacts(<<"d", "i", "g", " ", "+", "7", "9", "0", "0", "1", "2", "3">>), <<"m", "s", "k">>,
                           P0[1], P0[2], "catalog", {})
    \/ \E rid \in 1..MaxRequests, exid \in 1..MaxExecutors :
           /\ Len(offers) < MaxOffers
           /\ can_offer(rid, exid)
           /\ on_offer_comment(rid, exid, "hour", 50, <<"o", "k", " ", "@", "b", "o", "b">>, {})
    \/ \E s \in 1..MaxAccepts, tg \in {Alice, Carl}, o \in 1..MaxOffers :
           accept_lookup(s, tg, o)
    \/ \E s \in 1..MaxAccepts : accept_set_offer_status(s)
    \/ \E s \in 1..MaxAccepts : Len(deals) < MaxDeals /\ accept_create_deal(s)
    \/ \E s \in 1..MaxAccepts : accept_release_contacts(s)
    \/ \E s \in 1..MaxAccepts : accept_reply(s, {})

Spec == Init /\ [][Next]_vars

(***************************************************************************)
(* SpecAccept: on_accept_offer calls whose awaits interleave, and calls    *)
(* cut short between two awaits                                            *)
(***************************************************************************)
InitAccept ==
    /\ users = <<>>
    /\ executors = <<>>
    /\ requests = <<>>
    /\ offers = <<>>
    /\ deals = <<>>
    /\ prefer_owner_first = TRUE
    /\ accepts = [s \in 1..MaxAcceptSlots |-> Idle]
    /\ calls = <<>>
    /\ sessions = [a \in ActorIds |-> NoSession]
    /\ ret = NoRet
    /\ out = <<>>

NextAccept ==
    \/ /\ Len(executors) < 1
       /\ cmd_admin_add_exec_id(Admin, Carl.id, "c", 50000, <<"a">>, TRUE)
    \/ /\ Len(requests) < 1
       /\ finalize_request(Alice, <<"a">>, <<"d", "i", "g">>, <<"m", "s", "k">>,
                           P0[1], P0[2], "catalog", {})
    \/ /\ Len(offers) < MaxAcceptOffers
       /\ can_offer(1, 1)
       /\ on_offer_comment(1, 1, "hour", 50, <<"o", "k">>, {})
    \/ \E s \in 1..MaxAcceptSlots, o \in 1..MaxAcceptOffers : accept_lookup(s, Alice, o)
    \/ \E s \in 1..MaxAcceptSlots : accept_set_offer_status(s)
    \/ \E s \in 1..MaxAcceptSlots : Len(deals) < MaxAcceptDeals /\ accept_create_deal(s)
    \/ \E s \in 1..MaxAcceptSlots : accept_release_contacts(s)
    \/ \E s \in 1..MaxAcceptSlots : accept_reply(s, {})
    \/ \E s \in 1..MaxAcceptSlots : accept_interrupted(s)

SpecAccept == InitAccept /\ [][NextAccept]_vars

(***************************************************************************)
(* SpecAcceptDistinct: every offer is accepted by at most one call (call s *)
(* is the Accept of offer s); the calls interleave freely.                 *)
(***************************************************************************)
InitAcceptDistinct ==
    /\ users = <<>>
    /\ executors = <<>>
    /\ requests = <<>>
    /\ offers = <<>>
    /\ deals = <<>>
    /\ prefer_owner_first = TRUE
    /\ accepts = [s \in 1..MaxDistinctOffers |-> Idle]
    /\ calls = <<>>
    /\ sessions = [a \in ActorIds |-> NoSession]
    /\ ret = NoRet
    /\ out = <<>>

NextAcceptDistinct ==
    \/ start(Carl)
    \/ /\ Len(executors) < 1
       /\ cmd_admin_add_exec_id(Admin, Carl.id, "c", 50000, <<"a">>, TRUE)
    \/ /\ Len(requests) < 1
       /\ finalize_request(Alice, <<"a">>, <<"d", "i", "g">>, <<"m", "s", "k">>,
                           P0[1], P0[2], "catalog", {})
    \/ /\ Len(offers) < MaxDistinctOffers
       /\ can_offer(1, 1)
       /\ on_offer_comment(1, 1, "hour", 50, <<"o", "k">>, {})
    \/ \E s \in 1..MaxDistinctOffers :
           /\ s \in DOMAIN offers
           /\ offers[s].status = "active"
           /\ accept_lookup(s, Alice, s)
    \/ \E s \in 1..MaxDistinctOffers : accept_set_offer_status(s)
    \/ \E s \in 1..MaxDistinctOffers : accept_create_deal(s)
    \/ \E s \in 1..MaxDistinctOffers : accept_release_contacts(s)
    \/ \E s \in 1..MaxDistinctOffers, down \in SUBSET {Carl.id} : accept_reply(s, down)

SpecAcceptDistinct == InitAcceptDistinct /\ [][NextAcceptDistinct]_vars

(***************************************************************************)
(* SpecOffer: the offer conversation of an executor, from the "offer"      *)
(* button to Submit, with /menu and cancel in between, the sends that      *)
(* lead to it and the Accept that follows; channels may be unreachable     *)
(***************************************************************************)
\* what the executor types as a rate value
RateTexts ==
    { <<" ", "5", "0">>, <<"1", ",", "5">>,
      <<"a", "b", "c">>, <<"1", ",", "0", ".", "5">>, <<"n", "a", "n">> }

OfferDownSets == {{}, {Alice.id}, {Carl.id}}

NextOffer ==
    \/ /\ Len(executors) < 1
       /\ cmd_admin_add_exec_id(Admin, Carl.id, "c", 50000, <<"a">>, FALSE)
    \/ SetExecutorLocation(1, P1[1], P1[2])
    \/ \E down \in OfferDownSets :
           /\ Len(requests) < 1
           /\ finalize_request(Alice, <<"a">>, <<"d", "i", "g">>, <<"m", "s", "k">>,
                               P0[1], P0[2], "auction", down)
    \/ \E down \in OfferDownSets : on_request_offer(Alice, 1, 1, down)
    \/ can_offer(1, 1) /\ on_offer_click(Carl, 1, 1)
    \/ on_rate_type(Carl, "hour")
    \/ \E text \in RateTexts : on_rate_value(Carl, text)
    \/ \E down \in OfferDownSets :
           /\ Len(offers) < MaxOfferConvOffers
           /\ on_offer_comment_from(Carl, <<"o", "k", " ", "@", "b", "o", "b">>, down)
    \/ cmd_menu(Carl)
    \/ on_cancel(Carl)
    \/ \E o \in 1..MaxOfferConvOffers : accept_lookup(1, Alice, o)
    \/ accept_set_offer_status(1)
    \/ Len(deals) < MaxOfferConvOffers /\ accept_create_deal(1)
    \/ accept_release_contacts(1)
    \/ \E down \in OfferDownSets : accept_reply(1, down)

SpecOffer == Init /\ [][NextOffer]_vars

(***************************************************************************)
(* SpecUsers: get_or_create_user calls whose statements interleave, with   *)
(* executors registered before and after, role selections and listings     *)
(***************************************************************************)
InitUsers ==
    /\ users = <<>>
    /\ executors = <<>>
    /\ requests = <<>>
    /\ offers = <<>>
    /\ deals = <<>>
    /\ prefer_owner_first = TRUE
    /\ accepts = [s \in 1..MaxAccepts |-> Idle]
    /\ calls = [c \in 1..MaxCalls |-> NoCall]
    /\ sessions = [a \in ActorIds |-> NoSession]
    /\ ret = NoRet
    /\ out = <<>>

NextUsers ==
    \/ \E c \in 1..MaxCalls, tg \in {Alice, Carl}, role \in {NoText, "client"} :
           goc_select(c, tg, role)
    \/ \E c \in 1..MaxCalls : goc_insert(c)
    \/ \E c \in 1..MaxCalls : goc_backfill_pending(c)
    \/ \E c \in 1..MaxCalls : goc_backfill_direct(c)
    \/ \E c \in 1..MaxCalls : goc_return(c)
    \/ /\ Len(executors) < MaxUsersExecutors
       /\ cmd_admin_add_executor(Admin, "alice", "c", 50000, <<"a">>, FALSE)
    \/ /\ Len(executors) < MaxUsersExecutors
       /\ cmd_admin_add_exec_id(Admin, Carl.id, "c", 50000, <<"a">>, FALSE)
    \/ start(Alice)
    \/ \E role \in {"executor", "admin"} : on_role(Alice, role)
    \/ cmd_my_inline(Carl)

SpecUsers == InitUsers /\ [][NextUsers]_vars

(***************************************************************************)
(* Properties of the offer lifecycle (checked under Spec)                  *)
(***************************************************************************)
DealsOf(offer_id) == {d \in DOMAIN deals : deals[d].offer_id = offer_id}

AcceptCompleted == ret.op = "on_accept_offer" /\ ret.found

\* C1: when an Accept of an existing offer O of request R has run to completion,
\* exactly one Deal has offer_id = O, and that Deal has request_id = R and
\* contacts_released = true, whatever preceded the Accept.
C1_ExactlyOneDealAfterAccept ==
    AcceptCompleted =>
        /\ Cardinality(DealsOf(ret.offer_id)) = 1
        /\ \A d \in DealsOf(ret.offer_id) :
               /\ deals[d].request_id = offers[ret.offer_id].request_id
               /\ deals[d].contacts_released

\* C2: a message carries an executor contact only if it is the reply of Accept,
\* sent when the offer is accepted and the Deal made for it has
\* contacts_released = true; the notification of a submitted offer names the
\* executor by the label of its id only and its comment holds no contact.
C2_ContactOnlyOnAccept ==
    \A i \in DOMAIN out :
        LET m == out[i]
        IN  /\ m.kind = "new_offer" =>
                /\ m.contact = NoContact
                /\ m.label = offers[m.offer_id].executor_id
                /\ \A k \in DOMAIN m.comment : PHONE_OR_LINK(m.comment, k) = 0
            /\ ("contact" \in DOMAIN m /\ m.contact # NoContact) =>
                /\ m.kind = "deal"
                /\ offers[m.offer_id].status = "accepted"
                /\ m.deal_id \in DOMAIN deals
                /\ deals[m.deal_id].offer_id = m.offer_id
                /\ deals[m.deal_id].contacts_released

C2_Witness ==
    \E i \in DOMAIN out :
        /\ out[i].kind = "deal"
        /\ out[i].contact.kind = "handle"
        /\ \E j \in DOMAIN offers : offers[j].status = "active"

\* C3: an offer is created active, its status is always active or accepted, and
\* an accepted offer stays accepted.
C3_OfferStatus ==
    /\ [](\A o \in DOMAIN offers : offers[o].status \in {"active", "accepted"})
    /\ [][\A o \in DOMAIN offers' :
              IF o \in DOMAIN offers
              THEN offers[o].status = "accepted" => offers'[o].status = "accepted"
              ELSE offers'[o].status = "active"]_vars

C3_Witness ==
    /\ AcceptCompleted
    /\ offers[ret.offer_id].status = "accepted"
    /\ Cardinality(DealsOf(ret.offer_id)) = 2

\* C10: when get_or_create_user first creates the User of an actor, every
\* Executor pending on that actor's handle and without user_id gets the new
\* User's id as user_id and loses its pending_username, and every Executor
\* whose direct_tg_id is the actor's channel id gets that user_id too.
C10_Backfill ==
    [][\A tg \in Actors :
          (user_id_by_tg(users, tg.id) = NULL /\ user_id_by_tg(users', tg.id) # NULL) =>
              \A e \in DOMAIN executors :
                  /\ ( /\ executors[e].pending_username # NoText
                       /\ executors[e].pending_username = tg.username
                       /\ executors[e].user_id = NULL )
                     => /\ executors'[e].user_id = user_id_by_tg(users', tg.id)
                        /\ executors'[e].pending_username = NoText
                  /\ executors[e].direct_tg_id = tg.id
                     => executors'[e].user_id = user_id_by_tg(users', tg.id)]_vars

C10_Witness ==
    \E e, f \in DOMAIN executors :
        /\ executors[e].user_id = user_id_by_tg(users, Alice.id)
        /\ executors[e].user_id # NULL
        /\ executors[e].pending_username = NoText
        /\ executors[e].direct_tg_id = NULL
        /\ executors[f].direct_tg_id = Carl.id
        /\ executors[f].user_id = user_id_by_tg(users, Carl.id)
        /\ executors[f].user_id # NULL

(***************************************************************************)
(* Properties of the matcher (checked under SpecMatch)                     *)
(***************************************************************************)
Found == ret.op = "find_candidates"

\* the executor ids of the returned list
FoundIds == {ret.val[k].exec_id : k \in DOMAIN ret.val}

\* the request's category is one of the executor's comma-split, trimmed tags
HasCategory(e, cat) == \E k \in DOMAIN SplitComma(e.categories) : Strip(SplitComma(e.categories)[k]) = cat

Distance(r, e) == haversine_km(r.lat, r.lon, e.lat, e.lon)

\* C4: find_candidates never returns an executor whose category list does not
\* contain the request's category.
C4_CategoryFilter ==
    Found =>
        \A id \in FoundIds :
            /\ ret.req_id \in DOMAIN requests
            /\ HasCategory(executors[id], requests[ret.req_id].category)

\* an active, located executor within its radius is left out for its categories
C4_Witness ==
    /\ Found
    /\ ret.req_id \in DOMAIN requests
    /\ ret.val # <<>>
    /\ \E e \in DOMAIN executors :
           /\ e \notin FoundIds
           /\ ~HasCategory(executors[e], requests[ret.req_id].category)
           /\ executors[e].is_active
           /\ executors[e].lat # NoCoord
           /\ Distance(requests[ret.req_id], executors[e]) <= executors[e].radius_km

\* C5: find_candidates never returns an executor that is not active.
C5_InactiveExcluded ==
    Found => \A id \in FoundIds : executors[id].is_active

\* an inactive executor that matches in category, location and radius is left out
C5_Witness ==
    /\ Found
    /\ ret.req_id \in DOMAIN requests
    /\ \E e \in DOMAIN executors :
           /\ ~executors[e].is_active
           /\ e \notin FoundIds
           /\ HasCategory(executors[e], requests[ret.req_id].category)
           /\ executors[e].lat # NoCoord
           /\ Distance(requests[ret.req_id], executors[e]) <= executors[e].radius_km

\* C6: for an existing request, an active executor with the request's category
\* and a location is returned exactly when its distance is at most its own
\* radius, and it is returned once; no such executor is cut from the result.
C6_RadiusBoundary ==
    (Found /\ ret.req_id \in DOMAIN requests) =>
        \A e \in DOMAIN executors :
            ( /\ executors[e].is_active
              /\ HasCategory(executors[e], requests[ret.req_id].category)
              /\ executors[e].lat # NoCoord
              /\ executors[e].lon # NoCoord )
            => /\ e \in FoundIds
                   <=> Distance(requests[ret.req_id], executors[e]) <= executors[e].radius_km
               /\ Cardinality({k \in DOMAIN ret.val : ret.val[k].exec_id = e}) <= 1

\* one executor at exactly its radius is returned, another just beyond its own is not
C6_Witness ==
    /\ Found
    /\ ret.req_id \in DOMAIN requests
    /\ \E e, f \in DOMAIN executors :
           /\ e \in FoundIds
           /\ Distance(requests[ret.req_id], executors[e]) = executors[e].radius_km
           /\ f \notin FoundIds
           /\ executors[f].is_active
           /\ HasCategory(executors[f], requests[ret.req_id].category)
           /\ executors[f].lat # NoCoord
           /\ Distance(requests[ret.req_id], executors[f]) > executors[f].radius_km

\* C7: the returned list ascends by (0 for an owner when prefer_owner_first is
\* set, else 1; distance): with the preference, owners come before non-owners
\* and distance ascends within each group; without it, distance ascends.
C7_Ordering ==
    Found =>
        \A i, j \in DOMAIN ret.val :
            i < j =>
                IF prefer_owner_first
                THEN /\ ret.val[j].is_owner => ret.val[i].is_owner
                     /\ ret.val[i].is_owner = ret.val[j].is_owner
                            => ret.val[i].dist <= ret.val[j].dist
                ELSE ret.val[i].dist <= ret.val[j].dist

\* two owners, the nearer first, precede a non-owner nearer than both
C7_Witness ==
    /\ Found
    /\ prefer_owner_first
    /\ Len(ret.val) = 3
    /\ ret.val[1].is_owner
    /\ ret.val[2].is_owner
    /\ ~ret.val[3].is_owner
    /\ ret.val[3].dist < ret.val[1].dist
    /\ ret.val[1].dist < ret.val[2].dist

\* C8: find_candidates never returns an executor with a coordinate unset, and
\* an executor is created with both coordinates unset.
C8_LocationRequired ==
    /\ [](Found => \A id \in FoundIds :
                       executors[id].lat # NoCoord /\ executors[id].lon # NoCoord)
    /\ [][\A e \in DOMAIN executors' \ DOMAIN executors :
              executors'[e].lat = NoCoord /\ executors'[e].lon = NoCoord]_vars

\* an active executor of the request's category without a location is left out
C8_Witness ==
    /\ Found
    /\ ret.req_id \in DOMAIN requests
    /\ ret.val # <<>>
    /\ \E e \in DOMAIN executors :
           /\ e \notin FoundIds
           /\ executors[e].is_active
           /\ HasCategory(executors[e], requests[ret.req_id].category)
           /\ executors[e].lat = NoCoord

\* C9: find_candidates leaves every table as it was, and for a request id that
\* does not exist it returns the empty list.
C9_ReadOnly ==
    /\ [][(ret'.op = "find_candidates" /\ ret' # ret) => tables' = tables]_vars
    /\ [](Found /\ ret.req_id \notin DOMAIN requests => ret.val = <<>>)

\* a missing request id is looked up while executors and another request exist
C9_Witness ==
    /\ Found
    /\ ret.req_id \notin DOMAIN requests
    /\ ret.val = <<>>
    /\ requests # <<>>
    /\ \E e \in DOMAIN executors :
           /\ executors[e].is_active
           /\ executors[e].lat # NoCoord
           /\ HasCategory(executors[e], requests[1].category)
           /\ Distance(requests[1], executors[e]) <= executors[e].radius_km

(***************************************************************************)
(* Properties of the executors' addressing (checked under Spec)            *)
(***************************************************************************)
\* the addressing paths an executor row has set
AddressingPaths(e) ==
    (IF e.user_id # NULL THEN {"user_id"} ELSE {})
    \cup (IF e.pending_username # NoText THEN {"pending_username"} ELSE {})
    \cup (IF e.direct_tg_id # NULL THEN {"direct_tg_id"} ELSE {})

\* C11: every executor has exactly one of user_id, pending_username and
\* direct_tg_id set, never two and never none, also after the backfill of
\* user_id by get_or_create_user.
C11_ExactlyOneAddressingPath ==
    \A e \in DOMAIN executors : Cardinality(AddressingPaths(executors[e])) = 1

(***************************************************************************)
(* Properties of the dispatch (checked under SpecDispatch)                 *)
(***************************************************************************)
\* the delivery attempts among the messages of the latest handler
AttemptsOf(msgs, kinds) == SelectSeq(msgs, LAMBDA m : m.kind \in kinds)

\* the candidates of a request that have a channel id to send to
Resolvable(us, candidates) ==
    SelectSeq(candidates, LAMBDA c : resolve_chat_id(us, c.user_id, c.direct_tg_id) # NULL)

\* C12: when a request is finalized in auction mode, there is one delivery
\* attempt for each candidate of find_candidates that has a resolvable
\* address, in the order of the candidates and none twice, whether or not the
\* attempts before it succeeded; with no candidate nothing goes to an executor
\* and the client is told that none was found.
C12_AuctionBroadcast ==
    [][(Len(requests') = Len(requests) + 1 /\ Last(requests').mode = "auction") =>
        LET req_id == Len(requests')
            candidates == find_candidates(requests', executors', prefer_owner_first', req_id)
            expected == Resolvable(users', candidates)
            attempts == AttemptsOf(out', {"new_request"})
            client == users'[Last(requests').client_user_id].tg_id
        IN  /\ Len(attempts) = Len(expected)
            /\ \A i \in DOMAIN attempts :
                   /\ attempts[i].exec_id = expected[i].exec_id
                   /\ attempts[i].req_id = req_id
                   /\ attempts[i].to = resolve_chat_id(users', expected[i].user_id,
                                                       expected[i].direct_tg_id)
            /\ \A i \in DOMAIN out' :
                   out'[i].kind # "new_request" => out'[i].to = client
            /\ (candidates = <<>>) <=>
                   (\E i \in DOMAIN out' : out'[i].kind = "no_candidates" /\ out'[i].to = client)
    ]_vars

\* a broadcast whose first attempt failed and whose second succeeded, with a
\* candidate that has no address yet and got no attempt
C12_Witness ==
    /\ ret.op = "finalize_request"
    /\ requests[ret.req_id].mode = "auction"
    /\ Len(find_candidates(requests, executors, prefer_owner_first, ret.req_id)) = 3
    /\ LET attempts == AttemptsOf(out, {"new_request"})
       IN  /\ Len(attempts) = 2
           /\ ~attempts[1].ok
           /\ attempts[2].ok

\* the formula of C14 as the claim states it: one attempt whenever both exist
TargetedOps == {"on_request_offer", "cmd_admin_assign"}

TargetedKinds == {"offer_request", "admin_assign"}

TargetedFound == ret.req_id \in DOMAIN requests /\ ret.exec_id \in DOMAIN executors

\* the outcome reported to the caller of a targeted send
TargetedReports(kind) ==
    {i \in DOMAIN out : out[i].kind = kind /\ out[i].to = ret.tg_id}

\* C14 (as claimed): a targeted send for (request_id, executor_id) makes no
\* delivery attempt and reports not-found when the request or the executor
\* does not exist; otherwise it makes exactly one delivery attempt and reports
\* success exactly when that attempt succeeded.
C14_TargetedOneAttempt ==
    ret.op \in TargetedOps =>
        LET attempts == AttemptsOf(out, TargetedKinds)
        IN  IF ~TargetedFound
            THEN attempts = <<>> /\ TargetedReports("targeted_not_found") # {}
            ELSE /\ Len(attempts) = 1
                 /\ TargetedReports("targeted_result") # {}
                 /\ \A i \in TargetedReports("targeted_result") :
                        out[i].delivered <=> attempts[1].ok

\* C14 (amended): a targeted send makes no delivery attempt and reports
\* not-found when the request or the executor does not exist; otherwise it
\* makes one delivery attempt when the executor has a resolvable address and
\* none when it has not, and reports success exactly when an attempt was made
\* and succeeded; it never changes persisted state.
C14_TargetedSend ==
    /\ [](ret.op \in TargetedOps =>
            LET attempts == AttemptsOf(out, TargetedKinds)
            IN  IF ~TargetedFound
                THEN attempts = <<>> /\ TargetedReports("targeted_not_found") # {}
                ELSE LET e == executors[ret.exec_id]
                         chat_id == resolve_chat_id(users, e.user_id, e.direct_tg_id)
                     IN  /\ Len(attempts) = (IF chat_id # NULL THEN 1 ELSE 0)
                         /\ \A k \in DOMAIN attempts :
                                /\ attempts[k].to = chat_id
                                /\ attempts[k].req_id = ret.req_id
                                /\ attempts[k].exec_id = ret.exec_id
                         /\ TargetedReports("targeted_result") # {}
                         /\ \A i \in TargetedReports("targeted_result") :
                                out[i].delivered <=> (attempts # <<>> /\ attempts[1].ok))
    /\ [][(ret'.op \in TargetedOps /\ ret' # ret) => tables' = tables]_vars

\* a targeted send whose one attempt failed and was reported as a failure,
\* while an executor without an address exists
C14_Witness ==
    /\ ret.op \in TargetedOps
    /\ TargetedFound
    /\ Len(AttemptsOf(out, TargetedKinds)) = 1
    /\ ~AttemptsOf(out, TargetedKinds)[1].ok
    /\ \E i \in TargetedReports("targeted_result") : ~out[i].delivered
    /\ \E e \in DOMAIN executors :
           resolve_chat_id(users, executors[e].user_id, executors[e].direct_tg_id) = NULL

(***************************************************************************)
(* Properties of the catalog list (checked under SpecCatalog)              *)
(***************************************************************************)
\* the catalog lists among the messages of the latest handler
CatalogLists(msgs) == SelectSeq(msgs, LAMBDA m : m.kind = "catalog")

\* C13: when a request is finalized in catalog mode no message goes to an
\* executor; the client gets the candidates in the order find_candidates
\* returned them, cut to the first 20, each entry with a token bound to
\* (request_id, executor_id).
C13_CatalogList ==
    [][(Len(requests') = Len(requests) + 1 /\ Last(requests').mode = "catalog") =>
        LET req_id == Len(requests')
            candidates == find_candidates(requests', executors', prefer_owner_first', req_id)
            shown == IF Len(candidates) < 20 THEN Len(candidates) ELSE 20
            client == users'[Last(requests').client_user_id].tg_id
            lists == CatalogLists(out')
        IN  /\ \A i \in DOMAIN out' :
                   /\ out'[i].to = client
                   /\ out'[i].kind \notin {"new_request"} \cup TargetedKinds
            /\ \A e \in DOMAIN executors' :
                   client # resolve_chat_id(users', executors'[e].user_id,
                                            executors'[e].direct_tg_id)
            /\ Len(lists) = (IF candidates = <<>> THEN 0 ELSE 1)
            /\ \A l \in DOMAIN lists :
                   /\ Len(lists[l].entries) = shown
                   /\ \A k \in 1..shown :
                          lists[l].entries[k] =
                              [req_id |-> req_id, exec_id |-> candidates[k].exec_id]
    ]_vars

\* a catalog list of 20 entries out of more than 20 candidates, the first of
\* them an owner that is not the first row of the table
C13_Witness ==
    /\ ret.op = "finalize_request"
    /\ requests[ret.req_id].mode = "catalog"
    /\ Len(find_candidates(requests, executors, prefer_owner_first, ret.req_id)) > 20
    /\ Len(CatalogLists(out)) = 1
    /\ Len(CatalogLists(out)[1].entries) = 20
    /\ CatalogLists(out)[1].entries[1].exec_id # 1
    /\ \A i \in DOMAIN out : out[i].to = Alice.id

(***************************************************************************)
(* Properties of Accept's reply (checked under Spec)                       *)
(***************************************************************************)
\* C15: the executor contact Accept returns is the handle of the executor's
\* bound User when that User has one, otherwise the direct-channel form
\* whenever the executor has a direct_tg_id, and the empty placeholder only
\* when neither is available; so an executor bound to a User without a handle
\* that has a direct_tg_id yields the direct-channel form.
C15_ContactPreference ==
    AcceptCompleted =>
        LET uname == username_by_user_id(users, ret.exec_user_id)
        IN  ret.contact =
                IF uname # NoText
                THEN [kind |-> "handle", handle |-> uname, id |-> NULL]
                ELSE IF ret.direct_tg_id # NULL
                     THEN [kind |-> "link", handle |-> NoText, id |-> ret.direct_tg_id]
                     ELSE NoContact

\* C16: Accept on an offer id that does not exist reports "offer not found" to
\* the caller and changes no persisted state: no offer status is updated, no
\* Deal is created and no executor is notified.
C16_AcceptNotFound ==
    /\ [][(ret'.op = "on_accept_offer" /\ ~ret'.found /\ ret' # ret) =>
            /\ tables' = tables
            /\ UNCHANGED calls
            /\ accepts' = accepts
            /\ ret'.offer_id \notin DOMAIN offers]_vars
    /\ []((ret.op = "on_accept_offer" /\ ~ret.found) =>
            /\ Len(out) = 1
            /\ out[1].kind = "offer_not_found"
            /\ out[1].to = ret.tg_id)

\* an offer id that does not exist is accepted while an offer and a Deal exist
C16_Witness ==
    /\ ret.op = "on_accept_offer"
    /\ ~ret.found
    /\ ret.offer_id \notin DOMAIN offers
    /\ offers # <<>>
    /\ deals # <<>>
    /\ out # <<>>

(***************************************************************************)
(* Redaction as a function: the texts are drawn in the initial state, the  *)
(* actions apply mask_contacts to a text and to its result.                *)
(***************************************************************************)
\* pieces of contacts, of separators and of the marker itself
Fragments ==
    { <<"+">>, <<"7">>, <<"1", "2", "3", "4", "5", "6">>, <<"-">>, <<" ">>,
      <<"@">>, <<"a", "b">>, <<"H", "t", "t", "p", ":", "/", "/">>,
      <<"t", ".", "m", "e", "/">>, <<"[">>, MASK }

RECURSIVE Texts(_)
Texts(n) ==
    IF n = 0 THEN {<<>>}
    ELSE Texts(n - 1) \cup {t \o f : t \in Texts(n - 1), f \in Fragments}

InitRedact ==
    /\ users = <<>>
    /\ executors = <<>>
    /\ requests = <<>>
    /\ offers = <<>>
    /\ deals = <<>>
    /\ prefer_owner_first = TRUE
    /\ accepts = [s \in 1..MaxAccepts |-> Idle]
    /\ calls = <<>>
    /\ sessions = [a \in ActorIds |-> NoSession]
    /\ out = <<>>
    /\ \E x \in Texts(MaxFragments) : ret = [op |-> "text", x |-> x]

redact_once ==
    /\ ret.op = "text"
    /\ ret' = [op |-> "mask_contacts", x |-> ret.x, val |-> mask_contacts(ret.x)]
    /\ UNCHANGED <<tables, accepts, calls, sessions, out>>

redact_again ==
    /\ ret.op = "mask_contacts"
    /\ ret' = [op |-> "mask_contacts_twice", x |-> ret.x, once |-> ret.val,
               val |-> mask_contacts(ret.val)]
    /\ UNCHANGED <<tables, accepts, calls, sessions, out>>

NextRedact == redact_once \/ redact_again

SpecRedact == InitRedact /\ [][NextRedact]_vars

(***************************************************************************)
(* send_to_executor as a function: the users table, the executor row's two *)
(* ids and the unreachable channels are drawn in the initial state.        *)
(***************************************************************************)
SendUsers ==
    { <<>>,
      <<[tg_id |-> 2, username |-> "alice", role |-> "client"]>>,
      <<[tg_id |-> 2, username |-> "alice", role |-> "client"],
        [tg_id |-> 4, username |-> "dave", role |-> "executor"]>> }

InitSend ==
    /\ users \in SendUsers
    /\ executors = <<>>
    /\ requests = <<>>
    /\ offers = <<>>
    /\ deals = <<>>
    /\ prefer_owner_first = TRUE
    /\ accepts = [s \in 1..MaxAccepts |-> Idle]
    /\ calls = <<>>
    /\ sessions = [a \in ActorIds |-> NoSession]
    /\ out = <<>>
    /\ \E user_id \in 0..MaxSendUserId, direct_tg_id \in {NULL, 3, 4},
          down \in SUBSET {2, 3, 4} :
           ret = [op |-> "ex_row", user_id |-> user_id, direct_tg_id |-> direct_tg_id,
                  down |-> down]

send_once ==
    LET sent == send_to_executor(users, ret.user_id, ret.direct_tg_id,
                                 [to |-> NULL, ok |-> FALSE, kind |-> "text"], ret.down)
    IN  /\ ret.op = "ex_row"
        /\ out' = sent
        /\ ret' = [op |-> "send_to_executor", user_id |-> ret.user_id,
                   direct_tg_id |-> ret.direct_tg_id, down |-> ret.down,
                   val |-> delivered(sent)]
        /\ UNCHANGED <<tables, accepts, calls, sessions>>

NextSend == send_once

SpecSend == InitSend /\ [][NextSend]_vars

\* C18: redaction is idempotent, mask_contacts(mask_contacts(x)) =
\* mask_contacts(x) for every text x: the marker that redaction inserts is
\* never matched by the pattern, alone or together with the text around it.
C18_RedactionIdempotent ==
    ret.op = "mask_contacts_twice" => ret.val = ret.once

\* a text with a contact and with text around it has been redacted twice
C18_Witness ==
    /\ ret.op = "mask_contacts_twice"
    /\ ret.once # ret.x
    /\ Len(ret.once) > Len(MASK)
    /\ \E k \in DOMAIN ret.x : PHONE_OR_LINK(ret.x, k) # 0

(***************************************************************************)
(* Properties of the request conversation (checked under SpecConv)         *)
(***************************************************************************)
\* a text redaction leaves as it is
Redacted(text) == mask_contacts(text) = text

HasMarker(text) == \E i \in DOMAIN text : Exactly(text, i, MASK)

Cancels(a) ==
    /\ sessions[a].req_conv # "END"
    /\ \/ ret'.op = "on_cancel" /\ ret'.tg_id = a
       \/ /\ ret'.op = "on_loc_choice"
          /\ ret'.tg_id = a
          /\ "text" \in DOMAIN ret'
          /\ Strip(ret'.text) = CANCEL_LABEL

\* a step that writes the requests table is the finalization of a conversation
\* that was at its last step, and appends one row with every field set
WrittenAtFinalization ==
    requests' # requests =>
        /\ ret'.op = "finalize_request"
        /\ Len(requests') = Len(requests) + 1
        /\ SubSeq(requests', 1, Len(requests)) = requests
        /\ sessions[ret'.tg_id].req_conv \in {LOC_CHOICE, GEO_PICK}
        /\ sessions'[ret'.tg_id].req_conv = "END"
        /\ LET row == requests'[Len(requests')]
           IN  /\ row.category # <<>>
               /\ row.description # <<>>
               /\ row.address_text # <<>>
               /\ row.lat # NoCoord
               /\ row.lon # NoCoord

\* C19: a Request row is written only by finalization, once per completed
\* request conversation and with category, description, address and location
\* set; cancelling the conversation in any state before finalization clears
\* every session field, ends the conversation and leaves requests unchanged.
C19_WrittenOnceCancelClears ==
    /\ [][WrittenAtFinalization]_vars
    /\ [][\A a \in ActorIds :
            Cancels(a) =>
                /\ sessions'[a].user_data = NoData
                /\ sessions'[a].req_conv = "END"
                /\ requests' = requests]_vars

(***************************************************************************)
(* The prefer_owner_first setting (checked under SpecOrder)                *)
(***************************************************************************)
\* a result is in the order find_candidates gives it under a value of the setting
OrderedBy(val, prefer_owner) ==
    \A i, j \in DOMAIN val :
        i < j =>
            IF prefer_owner
            THEN /\ val[j].is_owner => val[i].is_owner
                 /\ val[i].is_owner = val[j].is_owner => val[i].dist <= val[j].dist
            ELSE val[i].dist <= val[j].dist

\* C20: prefer_owner_first is true initially; settings_get returns the value
\* given to the most recent settings_set_prefer_owner (true if there was none):
\* a set makes it that value and no other step changes it; and every
\* find_candidates call orders its result by the value current at that call.
C20_PreferOwnerSetting ==
    /\ settings_get(prefer_owner_first) = TRUE
    /\ [][/\ ret'.op = "settings_set_prefer_owner"
                => settings_get(prefer_owner_first') = ret'.v
          /\ ret'.op # "settings_set_prefer_owner"
                => settings_get(prefer_owner_first') = settings_get(prefer_owner_first)
          /\ ret'.op = "find_candidates"
                => OrderedBy(ret'.val, settings_get(prefer_owner_first)')]_vars

\* after a toggle to off a match of the request returns an order that a match
\* under the initial value does not return: a nearer non-owner precedes an owner
C20_Witness ==
    /\ Found
    /\ ~prefer_owner_first
    /\ Len(ret.val) >= 2
    /\ OrderedBy(ret.val, FALSE)
    /\ ~OrderedBy(ret.val, TRUE)

\* C30: in the location-choice state the cancel input of the reply keyboard
\* clears the session and ends the conversation; it is never taken for an
\* address, starts no geocoding lookup and never leads to the geocode-pick or
\* the address-input state.
C30_LocationCancel ==
    [][\A a \in ActorIds :
          (/\ sessions[a].req_conv = LOC_CHOICE
           /\ ret'.op = "on_loc_choice"
           /\ ret'.tg_id = a
           /\ "text" \in DOMAIN ret'
           /\ Strip(ret'.text) = CANCEL_LABEL)
          => /\ sessions'[a].user_data = NoData
             /\ sessions'[a].req_conv = "END"
             /\ sessions'[a].req_conv \notin {GEO_PICK, ADDR_IN}
             /\ sessions'[a].user_data.req_addr # CANCEL_LABEL
             /\ sessions'[a].user_data.geocode_results = <<>>]_vars

(***************************************************************************)
(* Administration and roles (checked under SpecAdmin)                      *)
(***************************************************************************)
NonAdmins == {a \in Actors : a.id \notin ADMIN_IDS}

Admins == {a \in Actors : a.id \in ADMIN_IDS}

\* what of an executor only the administration sets
AdminFields(e) == <<e.city, e.radius_km, e.categories, e.is_owner, e.lat, e.lon>>

\* C21: an /admin command or a location reply from an actor whose channel id
\* is not in ADMIN_IDS changes neither the settings row nor any executor; the
\* setting and an executor's city, radius, categories, owner flag and location
\* change, and an executor is created, only in a step an admin actor invoked.
C21_AdminOnly ==
    /\ [][(\E tg \in NonAdmins : AdminCommand(tg))
            => UNCHANGED <<prefer_owner_first, executors>>]_vars
    /\ [][(\/ prefer_owner_first' # prefer_owner_first
           \/ Len(executors') # Len(executors)
           \/ \E e \in DOMAIN executors :
                  AdminFields(executors'[e]) # AdminFields(executors[e]))
            => \E tg \in Admins : AdminCommand(tg)]_vars

\* a location reply came from a non-admin while an admin's set_loc waits for
\* one and the executor has no location
C21_Witness ==
    /\ ret.op = "on_location_reply"
    /\ ret.tg_id \notin ADMIN_IDS
    /\ \E a \in Admins :
           LET exid == sessions[a.id].user_data.await_loc_for_exec
           IN  /\ exid \in DOMAIN executors
               /\ executors[exid].lat = NoCoord

\* C22: the stored role of an existing User changes only in a step in which
\* that user selects a role (on_role); creating a request or listing one's
\* requests does not change it.
C22_RoleOnlyBySelection ==
    [][\A u \in DOMAIN users :
          users'[u].role # users[u].role
              => ret'.op = "on_role" /\ ret'.tg_id = users[u].tg_id]_vars

\* C23: get_or_create_user never changes the stored role of a User whose
\* channel id is in ADMIN_IDS: the user is created with role admin, and a
\* request creation or a listing of requests by that user leaves the role
\* as it was.
C23_AdminRoleKept ==
    /\ [][\A u \in DOMAIN users' :
            (u \notin DOMAIN users /\ users'[u].tg_id \in ADMIN_IDS)
                => users'[u].role = "admin"]_vars
    /\ [][\A u \in DOMAIN users :
            (users[u].tg_id \in ADMIN_IDS /\ ret'.op # "on_role")
                => users'[u].role = users[u].role]_vars

\* an admin that is stored with role admin has created a request
C23_Witness ==
    /\ ret.op = "finalize_request"
    /\ ret.tg_id \in ADMIN_IDS
    /\ \E u \in DOMAIN users : users[u].tg_id = ret.tg_id /\ users[u].role = "admin"
    /\ \E r \in DOMAIN requests :
           users[requests[r].client_user_id].tg_id \in ADMIN_IDS

(***************************************************************************)
(* send_to_executor (checked under SpecSend)                               *)
(***************************************************************************)
\* C28: send_to_executor sends to the bound User's channel id when the
\* executor has a user_id that resolves, else to the executor's direct_tg_id,
\* else to nobody; with no address it returns false without an attempt, and
\* when the transport fails it returns false after its one attempt.
C28_SendResolution ==
    ret.op = "send_to_executor" =>
        LET addr == IF ret.user_id # NULL /\ ret.user_id \in DOMAIN users
                    THEN users[ret.user_id].tg_id
                    ELSE IF ret.direct_tg_id # NULL THEN ret.direct_tg_id ELSE NULL
        IN  /\ ret.val \in BOOLEAN
            /\ addr = NULL => out = <<>> /\ ret.val = FALSE
            /\ addr # NULL => /\ Len(out) = 1
                              /\ out[1].to = addr
                              /\ out[1].ok = (addr \notin ret.down)
                              /\ ret.val = (addr \notin ret.down)

\* the bound User's channel is unreachable while the executor's direct channel,
\* another one, is reachable: one failed attempt at the User's channel
C28_Witness ==
    /\ ret.op = "send_to_executor"
    /\ ret.user_id \in DOMAIN users
    /\ ret.direct_tg_id # NULL
    /\ users[ret.user_id].tg_id # ret.direct_tg_id
    /\ users[ret.user_id].tg_id \in ret.down
    /\ ret.direct_tg_id \notin ret.down
    /\ Len(out) = 1
    /\ ~ret.val

(***************************************************************************)
(* Interleaved and interrupted Accepts (checked under SpecAccept and       *)
(* SpecAcceptDistinct)                                                     *)
(***************************************************************************)
Slots == DOMAIN accepts

\* call s passes from pc p to pc q in this step
SlotMoves(s, p, q) == accepts[s].pc = p /\ accepts'[s].pc = q

\* C24: an Accept stops at the lookup only when the offer row is missing; in every
\* other case, whatever the offer's status and whatever Deals it has, the call
\* goes on and its create-Deal step appends one more Deal row for the offer; so
\* two Accepts of one offer, interleaved or in sequence, leave two Deal rows.
C24_StepCreatesDeal ==
    \A s \in Slots :
        /\ accepts[s].pc = "idle" /\ ret'.op = "on_accept_offer" /\ ~ret'.found
               => ret'.offer_id \notin DOMAIN offers
        /\ SlotMoves(s, "create_deal", "release_contacts")
               => /\ Len(deals') = Len(deals) + 1
                  /\ deals'[Len(deals')].offer_id = accepts[s].offer_id
                  /\ \A d \in DOMAIN deals : deals'[d] = deals[d]

C24_DoubleAcceptPossible == [][C24_StepCreatesDeal]_vars

\* two Accepts of offer 1 are under way at once, the offer is already accepted
\* and has two Deal rows
C24_Witness ==
    /\ \E s1, s2 \in Slots :
           /\ s1 # s2
           /\ \A s \in {s1, s2} : accepts[s].pc = "release_contacts" /\ accepts[s].offer_id = 1
    /\ offers[1].status = "accepted"
    /\ Cardinality({d \in DOMAIN deals : deals[d].offer_id = 1}) = 2

\* C25 (steps): a step of an Accept writes one table: the set-accepted step only
\* the offer's status, the create-Deal step only a new Deal with
\* contacts_released = false, the release step only that Deal's flag; a call
\* takes them in this order.
C25_StepOrder ==
    /\ \A s \in Slots :
           /\ accepts[s].pc = "set_offer_status" /\ accepts'[s].pc # "set_offer_status"
                  => \/ ret'.op = "interrupted"
                     \/ /\ accepts'[s].pc = "create_deal"
                        /\ offers'[accepts[s].offer_id].status = "accepted"
                        /\ deals' = deals
           /\ accepts[s].pc = "create_deal" /\ accepts'[s].pc # "create_deal"
                  => \/ ret'.op = "interrupted"
                     \/ /\ accepts'[s].pc = "release_contacts"
                        /\ offers' = offers
                        /\ Len(deals') = Len(deals) + 1
                        /\ ~deals'[Len(deals')].contacts_released
                        /\ accepts'[s].deal_id = Len(deals')
           /\ accepts[s].pc = "release_contacts" /\ accepts'[s].pc # "release_contacts"
                  => \/ ret'.op = "interrupted"
                     \/ /\ accepts'[s].pc = "reply"
                        /\ offers' = offers
                        /\ Len(deals') = Len(deals)
                        /\ deals'[accepts[s].deal_id].contacts_released
                        /\ \A d \in DOMAIN deals \ {accepts[s].deal_id} : deals'[d] = deals[d]
    /\ deals' # deals => \E s \in Slots : accepts[s].pc \in {"create_deal", "release_contacts"}
                                         /\ accepts'[s].pc # accepts[s].pc
    /\ ret'.op = "interrupted" => UNCHANGED tables

\* C25: Accept makes three separate writes in the order set-accepted, create-Deal
\* with contacts_released = false, release; an Accept cut short between them
\* leaves an accepted offer without Deal or a Deal with contacts_released =
\* false, and never a Deal for an offer that is still active.
C25_ThreeWrites ==
    /\ [](\A d \in DOMAIN deals : /\ deals[d].offer_id \in DOMAIN offers
                                  /\ offers[deals[d].offer_id].status = "accepted")
    /\ [][C25_StepOrder]_vars

\* no call is running; one Accept was cut short after its first write (offer
\* accepted, no Deal) and one after its second (a Deal that is not released)
C25_Witness ==
    /\ \A s \in Slots : accepts[s].pc = "idle"
    /\ ret.op = "interrupted"
    /\ \E o \in DOMAIN offers :
           /\ offers[o].status = "accepted"
           /\ \A d \in DOMAIN deals : deals[d].offer_id # o
    /\ \E d \in DOMAIN deals : ~deals[d].contacts_released

\* offer o was accepted and its call has returned
DistinctDone(o) ==
    /\ o \in DOMAIN offers
    /\ offers[o].status = "accepted"
    /\ accepts[o].pc = "idle"

\* C26 (steps): a step of an Accept changes the status of no offer but its own
C26_OwnOfferOnly ==
    \A o \in DOMAIN offers :
        offers'[o].status # offers[o].status
            => /\ accepts[o].pc = "set_offer_status"
               /\ accepts[o].offer_id = o
               /\ \A p \in DOMAIN offers \ {o} : offers'[p] = offers[p]

\* C26: when offers of one request are each accepted by one call, under every
\* interleaving of the calls' steps each call runs to its reply, each accepted
\* offer gets exactly one Deal, with the offer's request_id and
\* contacts_released = true, and no Accept changes another offer's status.
C26_DistinctOffersSafe ==
    /\ [](\A o \in DOMAIN offers :
              /\ accepts[o].pc = "set_offer_status" => ENABLED accept_set_offer_status(o)
              /\ accepts[o].pc = "create_deal" => ENABLED accept_create_deal(o)
              /\ accepts[o].pc = "release_contacts" => ENABLED accept_release_contacts(o)
              /\ accepts[o].pc = "reply" => ENABLED accept_reply(o, {})
              /\ DistinctDone(o) =>
                     /\ Cardinality({d \in DOMAIN deals : deals[d].offer_id = o}) = 1
                     /\ \A d \in DOMAIN deals :
                            deals[d].offer_id = o =>
                                /\ deals[d].request_id = offers[o].request_id
                                /\ deals[d].contacts_released)
    /\ [][C26_OwnOfferOnly]_vars

\* offers 1 and 2 of request 1 were accepted by calls whose steps interleaved
\* (the Deal of offer 2 was created first) and both calls have returned, while
\* offer 3 of the request is still active
C26_Witness ==
    /\ DistinctDone(1) /\ DistinctDone(2)
    /\ offers[1].request_id = offers[2].request_id
    /\ Len(deals) = 2
    /\ deals[1].offer_id = 2 /\ deals[2].offer_id = 1
    /\ 3 \in DOMAIN offers /\ offers[3].status = "active"

(***************************************************************************)
(* The offer conversation and failed sends (checked under SpecOffer)       *)
(***************************************************************************)
\* some send of the latest operation was attempted again after it failed
Retried ==
    \E i, j \in DOMAIN out :
        i < j /\ ~out[i].ok /\ out[j].to = out[i].to /\ out[j].kind = out[i].kind

\* C27: a failed notification never propagates out of the operation that
\* attempted it: the auction broadcast, the targeted send, Submit and Accept
\* run to completion (Submit, once the Offer is written, confirms to the
\* executor and ends the offer conversation), and no failed send is retried.
C27_SendFailureContained ==
    /\ ~Retried
    /\ ret.op = "finalize_request" =>
           /\ out # <<>>
           /\ out[1] = [to |-> ret.tg_id, ok |-> TRUE, kind |-> "created", req_id |-> ret.req_id]
           /\ sessions[ret.tg_id].req_conv = "END"
    /\ ret.op = "on_request_offer" =>
           out # <<>> /\ out[Len(out)].to = Alice.id /\ out[Len(out)].ok
    /\ ret.op = "on_accept_offer" /\ ret.found =>
           out # <<>> /\ out[1].kind = "deal" /\ out[1].ok
    /\ ret.op = "on_offer_comment" =>
           /\ ret.raised # "send_message"
           /\ ret.offer_id # NULL =>
                  /\ out # <<>>
                  /\ out[Len(out)].kind = "offer_sent"
                  /\ out[Len(out)].to = ret.tg_id
                  /\ sessions[ret.tg_id].offer_conv = "END"

\* the text, with a comma read as the decimal point, writes a number: an
\* optional sign, then digits with at most one point among them
NumericText(text) ==
    LET t == Strip(text)
        b == IF t # <<>> /\ t[1] \in {"+", "-"} THEN SubSeq(t, 2, Len(t)) ELSE t
    IN  /\ \E i \in DOMAIN b : b[i] \in Digits
        /\ \A i \in DOMAIN b : b[i] \in Digits \cup {".", ","}
        /\ Cardinality({i \in DOMAIN b : b[i] \in {".", ","}}) <= 1

C29_Step ==
    /\ ret'.op = "on_rate_value" /\ ~NumericText(ret'.text)
           => /\ sessions' = sessions
              /\ offers' = offers
              /\ sessions'[ret'.tg_id].offer_conv = OFFER_RATE_VALUE
    /\ Len(offers') > Len(offers)
           => /\ ret'.op = "on_offer_comment"
              /\ sessions[ret'.tg_id].offer_conv = OFFER_COMMENT
              /\ offers' = Append(offers, offers'[Len(offers')])
              /\ offers'[Len(offers')].rate_type = "hour"
              /\ offers'[Len(offers')].rate_value.kind = "finite"
              /\ offers'[Len(offers')].rate_value = sessions[ret'.tg_id].user_data.rate_value

\* C29: in the offer conversation a rate value that is not a number keeps the
\* conversation in the rate-value state, stores no rate in the session and
\* creates no Offer; an Offer row is created only by the comment step, so after
\* a rate type, a numeric rate value and a comment, in this order.
C29_RateValidated == [][C29_Step]_vars

(***************************************************************************)
(* Roles and bindings as state invariants                                  *)
(***************************************************************************)
\* C36: in every reachable state a User has role admin only if its channel id
\* is in ADMIN_IDS: the insert of a user, get_or_create_user with a role and a
\* role selection by another actor, also of role:admin, never store admin for
\* a channel id outside ADMIN_IDS.
C36_AdminRoleOnlyForAdmins ==
    \A u \in DOMAIN users : users[u].role = "admin" => users[u].tg_id \in ADMIN_IDS

\* an actor outside ADMIN_IDS, whose User row exists, has just selected
\* role:admin
C36_Witness ==
    /\ ret.op = "on_role"
    /\ ret.role = "admin"
    /\ ret.tg_id \notin ADMIN_IDS
    /\ \E u \in DOMAIN users : users[u].tg_id = ret.tg_id /\ users[u].role # "admin"

\* C35: an executor's user_id and pending_username change only in the step that
\* inserts the User row they are bound to; so an executor registered under the
\* handle or the channel id of a User that already exists stays with user_id
\* null (and with its pending_username) through every later contact of that
\* user.
C35_BoundOnlyOnInsert ==
    [][\A e \in DOMAIN executors :
          /\ executors'[e].user_id # executors[e].user_id
                 => /\ Len(users') = Len(users) + 1
                    /\ executors[e].user_id = NULL
                    /\ executors'[e].user_id = Len(users')
          /\ executors'[e].pending_username # executors[e].pending_username
                 => /\ Len(users') = Len(users) + 1
                    /\ executors'[e].user_id = Len(users')
          /\ \A u \in DOMAIN users :
                 ( /\ executors[e].user_id = NULL
                   /\ \/ executors[e].direct_tg_id = users[u].tg_id
                      \/ /\ executors[e].pending_username # NoText
                         /\ executors[e].pending_username = users[u].username )
                 => /\ executors'[e].user_id = NULL
                    /\ executors'[e].pending_username = executors[e].pending_username]_vars

\* the users alice and 3 exist, an executor is pending on the handle alice and
\* another has the direct channel id 3, both unbound, and alice has just
\* created a request
C35_Witness ==
    /\ ret.op = "finalize_request"
    /\ ret.tg_id = Alice.id
    /\ user_id_by_tg(users, Alice.id) # NULL
    /\ user_id_by_tg(users, Carl.id) # NULL
    /\ \E e, f \in DOMAIN executors :
           /\ executors[e].pending_username = Alice.username
           /\ executors[e].user_id = NULL
           /\ executors[f].direct_tg_id = Carl.id
           /\ executors[f].user_id = NULL
    /\ Len(requests) >= 2

\* C33: in every reachable state every Deal references an Offer that exists and
\* is accepted, and has that Offer's request_id; a Deal row is never written for
\* an offer that is still active.
C33_DealOfAcceptedOffer ==
    /\ [](\A d \in DOMAIN deals :
              /\ deals[d].offer_id \in DOMAIN offers
              /\ offers[deals[d].offer_id].status = "accepted"
              /\ deals[d].request_id = offers[deals[d].offer_id].request_id)
    /\ [][\A d \in DOMAIN deals' \ DOMAIN deals :
              /\ deals'[d].offer_id \in DOMAIN offers
              /\ offers[deals'[d].offer_id].status # "active"]_vars

\* offers 1 and 2 each have one Deal, both released, and no call is running
C33_Witness ==
    /\ \A o \in 1..2 : \E d \in DOMAIN deals : deals[d].offer_id = o
    /\ \A d \in DOMAIN deals : deals[d].contacts_released
    /\ Len(deals) = 2
    /\ \A s \in DOMAIN accepts : accepts[s].pc = "idle"

\* C32: in every reachable state no two Executors have the same non-null
\* user_id, also when several executors were registered under one pending
\* handle or one direct channel id before the User's first contact.
C32_UserBoundToOneExecutor ==
    \A e, f \in DOMAIN executors :
        (e # f /\ executors[e].user_id # NULL) => executors[e].user_id # executors[f].user_id

\* the channel id of the client of the request of offer o
OwnerOfOffer(o) == tg_id_by_user_id(users, requests[offers[o].request_id].client_user_id)

\* C34: an Accept of offer O by an actor who is not the client of O's request
\* writes nothing (no status change, no Deal) and gets no contact: only calls
\* of the request's client get past the lookup, and the reply with the Deal and
\* the contact goes to that client only.
C34_AcceptOnlyByOwner ==
    /\ \A s \in DOMAIN accepts :
           accepts[s].pc \in {"create_deal", "release_contacts", "reply"}
               => accepts[s].tg_id = OwnerOfOffer(accepts[s].offer_id)
    /\ \A i \in DOMAIN out :
           out[i].kind = "deal" => out[i].to = OwnerOfOffer(out[i].offer_id)

(***************************************************************************)
(* Users (checked under SpecUsers)                                         *)
(***************************************************************************)
\* C31: in every reachable state there is at most one User row per channel id,
\* also when two get_or_create_user calls for one unseen channel id interleave;
\* a call for a channel id that has a row returns the id of that row; no step
\* removes a User row or changes its channel id.
C31_OneUserPerChannel ==
    /\ [](\A u, v \in DOMAIN users : users[u].tg_id = users[v].tg_id => u = v)
    /\ [][/\ \A u \in DOMAIN users : u \in DOMAIN users' /\ users'[u].tg_id = users[u].tg_id
          /\ \A u \in DOMAIN users :
                 (ret'.op = "get_or_create_user" /\ ~ret'.raised /\ ret'.tg_id = users[u].tg_id)
                     => ret'.uid = u]_vars

\* two calls for the unseen channel id of alice interleaved: both found no row,
\* one inserted it, the INSERT of the other has just been refused
C31_Witness ==
    /\ ret.op = "get_or_create_user"
    /\ ret.raised
    /\ ret.tg_id = Alice.id
    /\ Cardinality({u \in DOMAIN users : users[u].tg_id = Alice.id}) = 1
    /\ \E c \in DOMAIN calls : calls[c].pc # "idle" /\ calls[c].tg = Alice

====
